---- MODULE Spec2Model ----
(***************************************************************************)
(* Field/table matching, query remapping and dashboard cloning of the      *)
(* metabase clone tool (src/metabase_utils/database_fields.py,             *)
(* src/metabase_utils/clone_dashboard.py, src/main.py).                    *)
(*                                                                         *)
(* The module holds one state machine per layer, each with its own         *)
(* specification; a layer runs the actions of the layers below it, and the *)
(* variables of the layers above it stay at their initial values:          *)
(*   SpecMatch  one FieldMatcher, its first access of `matches`            *)
(*   SpecRuns   several FieldMatchers over one cache folder                *)
(*   SpecRemap  remap_queries, with the FieldMatcher it builds             *)
(*   SpecClone  main, the clone paths and create_and_link_dashboard, with  *)
(*              the remap_queries calls they make                          *)
(*   SpecCache  the cache files of get_dashboard and                       *)
(*              check_filter_params_exists                                 *)
(*   SpecPopulate  populate_cards and connect_filters of one create_new    *)
(*   SpecLookup  one call of search_table or search_field                  *)
(*   SpecCheckTables  one call of check_tables                             *)
(*   SpecRace   two FieldMatchers at work on one field_match.json          *)
(***************************************************************************)
EXTENDS Integers, Sequences, FiniteSets, TLC

VARIABLES
    \* ---- FieldMatcher (SpecMatch) ----
    shape,          \* what the two Backends serve: [s, d, same]
    source,         \* FieldMatcher.__data_source.databases
    destination,    \* FieldMatcher.__data_destination.databases
    same_instance,  \* FieldMatcher.__same_instance
    file,           \* <config>/<source>/<destination>/field_match.json
    mpc,            \* where the matcher's caller stands: "idle" or in the "loop" of match()
    si, di,         \* positions of the two for loops of match()
    match_dict,     \* match()'s local match_dict
    fields_match,   \* FieldMatcher.__databases_tables_fields_match
    returned,       \* the value the last access of `matches` returned
    branch,         \* the branch the last match() took: "none", "load", "compute"
    last,           \* the database pair the loop body last ran for, and what it did
    nmatchers,      \* FieldMatcher objects built so far
    naccess         \* accesses of `matches` on the current FieldMatcher

varsM == <<shape, source, destination, same_instance, file, mpc, si, di, match_dict,
           fields_match, returned, branch, last, nmatchers, naccess>>

VARIABLES
    \* ---- remap_queries (SpecRemap) ----
    rq_in,          \* the arguments of the call: [queries, database_name, enterprise_name]
    queries,        \* the `queries` dict, rewritten in place
    rpc,            \* where remap_queries stands: "off", "start", "matcher", "loop",
                    \* "returned", "raised"
    qi,             \* position of the loop over the queries
    destination_database_id,
    awesome_matching_id_dict,
    log,            \* the warnings logged by the current call
    rerr,           \* the exception that left the call, "" when none
    nremaps         \* calls of remap_queries so far

varsR == <<rq_in, queries, rpc, qi, destination_database_id, awesome_matching_id_dict,
           log, rerr, nremaps>>

VARIABLES
    \* ---- main and the clone of each dashboard (SpecClone) ----
    args,           \* the parsed command line
    csv,            \* get_pm_domain_from_csv(): instance name -> pm_domain
    src_dashboards, \* the dashboards the source Backend serves, by id
    dest_collections, \* the collections of the destination, by position (the id)
    mainpc,         \* where main stands: "off", "start", "pool", "single", "done", "raised"
    merr,           \* the exception that left main, "" when none
    task_args,      \* what main passes to each create_and_link_dashboard
    tasks,          \* the calls of create_and_link_dashboard, in order of submission
    dest_writes,    \* the POST and PUT requests the destination received, in order
    clog,           \* warnings and errors logged by main and the clones
    remap_task      \* the task whose remap_queries call is under way, 0 when none

varsC == <<args, csv, src_dashboards, dest_collections, mainpc, merr, task_args, tasks,
           dest_writes, clog, remap_task>>

VARIABLES
    \* ---- the cache files of dashboards and filters (SpecCache) ----
    now,            \* time.time(), in units of DAY / 2
    live_dashboards, \* what GET /api/dashboard/<id> of the source answers, by id
    dashboard_files, \* ./config/cards/<instance>/dashboard_<id>.json, by id
    filter_file,    \* ./config/<instance>/filter_params.json
    call,           \* the last call of get_dashboard or check_filter_params_exists
    ncalls          \* calls so far

varsK == <<now, live_dashboards, dashboard_files, filter_file, call, ncalls>>

VARIABLES
    \* ---- the cache files of the schemas (SpecRuns) ----
    db_live,        \* updated_at of each database in GET /api/database, by instance
    db_files,       \* <config>/<instance>/database/<id>.json, by instance and id
    build           \* what the last MetabaseData built did, by side

varsS == <<db_live, db_files, build>>

\* the cache stores
VARIABLES
    \* ---- populate_cards and connect_filters of one create_new (SpecPopulate) ----
    p_pc,           \* where create_new stands: "off", "submit", "collect", "populated", "linked", "raised"
    p_queries,      \* the `queries` create_new was given, in the order of the dict
    p_source,       \* the ordered_cards get_dashboard returns for the source dashboard
    p_i,            \* the queries the loop of populate_cards has submitted
    p_futures,      \* the future of each query: its state, the card it made, collected or not
    p_submits,      \* how many times each query was submitted
    p_dest,         \* the ordered_cards of the created dashboard in the destination Backend
    p_ncards,       \* the cards POST /api/card has created
    p_log,          \* the errors populate_cards logged
    p_payload       \* the `cards` of the PUT connect_filters sent

varsP == <<p_pc, p_queries, p_source, p_i, p_futures, p_submits, p_dest, p_ncards, p_log,
           p_payload>>

VARIABLES
    \* ---- one call of a lookup helper or of another pure function (SpecLookup) ----
    pure_call,      \* the function called and its arguments, fn = "none" before the call
    pure_result     \* what the call returned or raised, "none" before the call

varsF == <<pure_call, pure_result>>

VARIABLES
    \* ---- two FieldMatchers at work on one field_match.json (SpecRace) ----
    z_pc,           \* where each matcher's match() stands: "off", "new", "loop", "returned"
    z_pos,          \* the database pair each matcher's loops stand at
    z_dict,         \* each matcher's match_dict
    z_seen,         \* what field_match.json held when the matcher loaded it
    z_file          \* field_match.json

varsZ == <<z_pc, z_pos, z_dict, z_seen, z_file>>

varsX == <<varsK, varsS, varsP, varsF, varsZ>>

\* what the FieldMatcher leaves alone
restM == <<varsR, varsC, varsX>>

\* `matches` is being read: by a caller of the model's own, or by remap_queries,
\* which reads it once
Accessing == rpc = "off" \/ (rpc = "matcher" /\ naccess = 0)

(***************************************************************************)
(* Bounds of the model.                                                    *)
(***************************************************************************)
\* databases per instance
MaxDbs == 2
\* tables per database
MaxTables == 2
\* fields per table
MaxFields == 2
\* FieldMatcher objects built one after the other over the same cache folder
MaxMatchers == 2
\* accesses of FieldMatcher.matches per FieldMatcher
MaxAccesses == 2

Engines == {"postgres", "mysql"}
TableNames == {"orders", "customers"}
FieldNames == {"id", "total"}

\* Python's str ordering on the field names in use: "id" < "total".
NameRank == [n \in FieldNames |-> IF n = "id" THEN 1 ELSE 2]

(***************************************************************************)
(* Python dicts are functions with a finite domain; {} is the function     *)
(* with the empty domain.                                                  *)
(***************************************************************************)
EmptyDict == << >>

Truthy(d) == DOMAIN d # {}

\* d[k] = v
Put(d, k, v) == [x \in (DOMAIN d) \cup {k} |-> IF x = k THEN v ELSE d[x]]

\* {**a, **b}
Merge(a, b) == [x \in (DOMAIN a) \cup (DOMAIN b) |-> IF x \in DOMAIN b THEN b[x] ELSE a[x]]

(***************************************************************************)
(* Schema entities (database_fields.py: Field, Table, Database).           *)
(* A Table carries the state of its private hashlib.sha256 object as the   *)
(* byte stream fed to it so far: the sequence of str(tuple of names)       *)
(* chunks passed to update().  SHA-256 is taken collision free, so the     *)
(* digest is identified with that stream.                                  *)
(***************************************************************************)
Names(fields) == [k \in 1..Len(fields) |-> fields[k].name]

\* Field.__lt__
FieldLt(a, b) == NameRank[a.name] < NameRank[b.name]

\* list.sort(): stable, uses only __lt__.  x goes before the first element
\* it is strictly less than.
RECURSIVE InsertField(_, _, _)
InsertField(x, sorted, k) ==
    IF k > Len(sorted) THEN Append(sorted, x)
    ELSE IF FieldLt(x, sorted[k])
         THEN SubSeq(sorted, 1, k - 1) \o <<x>> \o SubSeq(sorted, k, Len(sorted))
         ELSE InsertField(x, sorted, k + 1)

RECURSIVE SortFrom(_, _, _)
SortFrom(fields, k, acc) ==
    IF k > Len(fields) THEN acc
    ELSE SortFrom(fields, k + 1, InsertField(fields[k], acc, 1))

SortFields(fields) == SortFrom(fields, 1, << >>)

\* HashTable feeding an empty tuple, whatever the fields are
HashTable_NamesIgnored(t) ==
    LET sorted == SortFields(t.fields)
        fed    == Append(t.hashfunction, << >>)
    IN  [t |-> [t EXCEPT !.fields = sorted, !.hashfunction = fed], h |-> fed]

\* Table.__hash__: sorts self.fields in place, feeds the name tuple to the
\* table's own sha256 object and returns the digest of all that was fed.
HashTable(t) ==
    LET sorted == SortFields(t.fields)
        fed    == Append(t.hashfunction, Names(sorted))
    IN  [t |-> [t EXCEPT !.fields = sorted, !.hashfunction = fed], h |-> fed]

(***************************************************************************)
(* FieldMatcher.match_tables / match_databases                             *)
(***************************************************************************)
\* ScanFields comparing the fields' ids instead of their names
RECURSIVE ScanFields_ById(_, _, _)
ScanFields_ById(source_field, dfields, k) ==
    IF k > Len(dfields) THEN 0
    ELSE IF source_field.id = dfields[k].id THEN k
         ELSE ScanFields_ById(source_field, dfields, k + 1)

\* ScanFields without the break: the last same-named field wins
RECURSIVE ScanFields_Last(_, _, _)
ScanFields_Last(source_field, dfields, k) ==
    IF k > Len(dfields) THEN 0
    ELSE LET later == ScanFields_Last(source_field, dfields, k + 1)
         IN  IF later # 0 THEN later
             ELSE IF source_field.name = dfields[k].name THEN k ELSE 0

\* inner loop of match_tables: index of the destination field the loop
\* breaks on, 0 when it runs to the end
RECURSIVE ScanFields(_, _, _)
ScanFields(source_field, dfields, k) ==
    IF k > Len(dfields) THEN 0
    ELSE IF source_field.name = dfields[k].name THEN k
         ELSE ScanFields(source_field, dfields, k + 1)

RECURSIVE MatchFieldsFrom(_, _, _, _)
MatchFieldsFrom(sfields, dfields, k, matching_fields) ==
    IF k > Len(sfields) THEN matching_fields
    ELSE LET j == ScanFields(sfields[k], dfields, 1)
         IN  MatchFieldsFrom(sfields, dfields, k + 1,
                 IF j = 0 THEN matching_fields
                 ELSE Put(matching_fields, sfields[k].id, dfields[j].id))

\* match_tables pairing the fields by their position in the two lists
match_tables_ByPosition(source_table, destination_table) ==
    LET n == IF Len(source_table.fields) < Len(destination_table.fields)
             THEN Len(source_table.fields) ELSE Len(destination_table.fields)
    IN  [x \in {source_table.fields[k].id : k \in 1..n} |->
            destination_table.fields[CHOOSE k \in 1..n : source_table.fields[k].id = x].id]

match_tables(source_table, destination_table) ==
    MatchFieldsFrom(source_table.fields, destination_table.fields, 1, EmptyDict)

\* source_table.name == destination_table.name
TableNameEq(source_table, destination_table) ==
    source_table.name = destination_table.name

\* The two loops of match_databases.  st, dt are the table lists of the two
\* databases (hash() changes the tables it is called on), a, b the loop
\* positions.  `or` evaluates hash() only when the names differ, the source
\* table's first.  pairs records, for the properties, which (source table id,
\* destination table id) pairs reached match_tables.
RECURSIVE MatchDbLoop(_, _, _, _, _, _)
MatchDbLoop(st, dt, a, b, matching_tables, pairs) ==
    IF a > Len(st)
    THEN [matching |-> matching_tables, st |-> st, dt |-> dt, pairs |-> pairs]
    ELSE IF b > Len(dt) THEN MatchDbLoop(st, dt, a + 1, 1, matching_tables, pairs)
    ELSE IF TableNameEq(st[a], dt[b])
         THEN MatchDbLoop(st, dt, a + 1, 1,
                          Merge(matching_tables, match_tables(st[a], dt[b])),
                          pairs \cup {<<st[a].id, dt[b].id>>})
         ELSE LET hs  == HashTable(st[a])
                  hd  == HashTable(dt[b])
                  st2 == [st EXCEPT ![a] = hs.t]
                  dt2 == [dt EXCEPT ![b] = hd.t]
              IN  IF hs.h = hd.h
                  THEN MatchDbLoop(st2, dt2, a + 1, 1,
                                   Merge(matching_tables, match_tables(st2[a], dt2[b])),
                                   pairs \cup {<<st2[a].id, dt2[b].id>>})
                  ELSE MatchDbLoop(st2, dt2, a, b + 1, matching_tables, pairs)

match_databases(source_database, destination_database) ==
    MatchDbLoop(source_database.tables, destination_database.tables, 1, 1, EmptyDict, {})

(***************************************************************************)
(* JSON persistence of the correspondence map (json.dump / json.load with  *)
(* object_hook=as_integer).  json.dump writes every dict key as a string;  *)
(* Str(k) stands for the decimal string of the integer k.  The values of   *)
(* the innermost dict are JSON numbers and stay integers.                  *)
(***************************************************************************)
Str(k) == [str |-> k]

\* int(k) of a key written by Str
IntOf(s) == s.str

\* a dict of integer keys, as the JSON object json.dump writes for it
StrKeys(d) == [s \in {Str(k) : k \in DOMAIN d} |-> d[IntOf(s)]]

\* JsonDump that writes an empty object
JsonDump_Nothing(obj) == EmptyDict

\* json.dump(match_dict, f, indent=4): three levels of dicts
JsonDump(obj) ==
    LET dst(d) == LET sk == StrKeys(d) IN [s \in DOMAIN sk |-> StrKeys(sk[s])]
        top    == StrKeys(obj)
    IN  [s \in DOMAIN top |-> dst(top[s])]

\* FieldMatcher.as_integer
as_integer(x) == [k \in {IntOf(s) : s \in DOMAIN x} |-> x[Str(k)]]

\* JsonLoad that reads an empty object
JsonLoad_Nothing(json) == EmptyDict

\* json.load(f, object_hook=self.as_integer): the hook is applied to every
\* JSON object, innermost first
JsonLoad(json) ==
    LET dst(x) == LET ik == as_integer(x) IN [k \in DOMAIN ik |-> as_integer(ik[k])]
        top    == as_integer(json)
    IN  [k \in DOMAIN top |-> dst(top[k])]

(***************************************************************************)
(* Schemas served by the Backends.  A shape lists, per database, its       *)
(* engine and its tables (name and column names); ids are given by         *)
(* position, so that they are unique within an instance and unrelated to   *)
(* the names.  The two instances of a run give their databases the same    *)
(* ids 1, 2, ...; table and field ids of a different destination instance  *)
(* are shifted by IdBase.                                                  *)
(***************************************************************************)
FieldLists == UNION {[1..n -> FieldNames] : n \in 1..MaxFields}

TableShapes == [name : TableNames, cols : FieldLists]

\* tables of one database; tables of different schemas may share a name
TableLists == UNION {[1..n -> TableShapes] : n \in 1..MaxTables}

\* one postgres database with up to MaxTables tables of up to MaxFields fields
RichShapes == {<<[engine |-> "postgres", tables |-> tl]>> : tl \in TableLists}

\* up to MaxDbs databases of any engine, each with one single-column table
SmallDbs ==
    {[engine |-> e, tables |-> <<[name |-> tn, cols |-> <<fn>>]>>] :
        e \in Engines, tn \in TableNames, fn \in FieldNames}

MultiShapes == UNION {[1..n -> SmallDbs] : n \in 1..MaxDbs}

IdBase(tag) == IF tag = "src" THEN 0 ELSE 1000

DbName(tag, k) ==
    IF tag = "src" THEN (IF k = 1 THEN "Alpha" ELSE "Gamma")
    ELSE (IF k = 1 THEN "Beta" ELSE "Delta")

\* Field.from_dict
MkField(tag, k, t, p, name) ==
    [id           |-> IdBase(tag) + 100 * k + 10 * t + p,
     name         |-> name,
     display_name |-> IF tag = "src" THEN "Source column" ELSE "Destination column",
     base_type    |-> IF p = 1 THEN "type/Integer" ELSE "type/Text"]

\* Table.from_dict, then __post_init__: a fresh sha256 object
MkTable(tag, k, t, ts) ==
    [id           |-> IdBase(tag) + 10 * k + t,
     name         |-> ts.name,
     fields       |-> [p \in 1..Len(ts.cols) |-> MkField(tag, k, t, p, ts.cols[p])],
     hashfunction |-> << >>]

\* Database.from_dict
MkDatabase(tag, k, ds) ==
    [id     |-> k,
     name   |-> DbName(tag, k),
     engine |-> ds.engine,
     tables |-> [t \in 1..Len(ds.tables) |-> MkTable(tag, k, t, ds.tables[t])]]

\* MetabaseData.__populate_databases: the list of Database objects
Snapshot(tag, sh) == [k \in 1..Len(sh) |-> MkDatabase(tag, k, sh[k])]

\* the destination snapshot: of the same instance it is built from the same
\* payloads as the source's, into objects of its own
DestinationSnapshot(sh) == Snapshot(IF sh.same THEN "src" ELSE "dst", sh.d)

\* two instances of several small databases, or one instance cloned onto itself
MultiScenarios ==
    {[s |-> s, d |-> d, same |-> FALSE] : s \in MultiShapes, d \in MultiShapes}
    \cup {[s |-> s, d |-> s, same |-> TRUE] : s \in MultiShapes}

\* two instances of one database each, or one such instance cloned onto itself
RichScenario(sh) ==
    \/ \E s \in RichShapes, d \in RichShapes : sh = [s |-> s, d |-> d, same |-> FALSE]
    \/ \E s \in RichShapes : sh = [s |-> s, d |-> s, same |-> TRUE]

NoLast == [s |-> 0, d |-> 0, skipped |-> TRUE, pairs |-> {}]

NoValue == [some |-> FALSE, val |-> EmptyDict]

Some(v) == [some |-> TRUE, val |-> v]

\* no field_match.json.  `dumped` is the dict the text was dumped from, kept
\* for the properties
NoFile == [exists |-> FALSE, json |-> EmptyDict, dumped |-> EmptyDict]

(***************************************************************************)
(* MetabaseData.__populate_databases and its cache files.                  *)
(*                                                                         *)
(* An instance is "src" or "dst"; the destination side of a clone within   *)
(* one instance reads the instance "src".  GET /api/database lists every   *)
(* database with its updated_at; <config>/<instance>/database/<id>.json    *)
(* holds the payload of GET /api/database/<id>?include=tables.fields as it *)
(* was fetched, updated_at included.                                       *)
(***************************************************************************)
\* changes of one database in a Backend
MaxUpdates == 1

NoPayload == [engine |-> "", tables |-> << >>]

NoDbFile == [exists |-> FALSE, updated_at |-> 0, payload |-> NoPayload]

\* MetabaseData.cache(path, data)
DbFile(updated_at, payload) ==
    [exists |-> TRUE, updated_at |-> updated_at, payload |-> payload]

InstanceOf(side) == IF side = "dst" /\ ~shape.same THEN "dst" ELSE "src"

\* what the Backend of the instance serves
LiveDatabases(inst) == IF inst = "src" THEN shape.s ELSE shape.d

\* MustRefetch without the comparison of the two updated_at
MustRefetch_OnlyMissing(f, updated_at) == ~f.exists

\* not file_exists or arrow.get(cached updated_at) < arrow.get(live updated_at)
MustRefetch(f, updated_at) == ~f.exists \/ f.updated_at < updated_at

\* the loop of __populate_databases over the first n listed databases: the
\* files afterwards, the payloads the Database objects are built from, and
\* the databases whose payload was fetched
populate_databases(files, listing, payloads, n) ==
    LET fetched == {k \in 1..n : MustRefetch(files[k], listing[k])}
    IN  [files    |-> [k \in 1..Len(files) |->
                          IF k \in fetched THEN DbFile(listing[k], payloads[k])
                          ELSE files[k]],
         payloads |-> [k \in 1..n |->
                          IF k \in fetched THEN payloads[k] ELSE files[k].payload],
         fetched  |-> fetched]

\* a MetabaseData as the properties see it: the databases whose payload its
\* constructor fetched, the database whose GET raised (0 when none), and its
\* __cached attribute, set to True in __init__
Built(fetched) == [fetched |-> fetched, raised |-> 0, cached |-> TRUE]

NotBuilt == [fetched |-> {}, raised |-> 0, cached |-> TRUE]

\* the property MetabaseData.cached
cached(data) == data.cached

ColdFiles(inst) == [k \in 1..Len(LiveDatabases(inst)) |-> NoDbFile]

WarmFiles(inst) == [k \in 1..Len(LiveDatabases(inst)) |-> DbFile(1, LiveDatabases(inst)[k])]

\* the cache folders of a first run, or as an earlier run left them
SchemaCaches ==
    {[src |-> ColdFiles("src"), dst |-> IF shape.same THEN << >> ELSE ColdFiles("dst")],
     [src |-> WarmFiles("src"), dst |-> IF shape.same THEN << >> ELSE WarmFiles("dst")],
     [src |-> WarmFiles("src"), dst |-> IF shape.same THEN << >> ELSE ColdFiles("dst")]}

\* the Backends of the runs: every table is orders(id) until its column is
\* renamed
RunScenarios ==
    {sh \in MultiScenarios :
        \A x \in {sh.s, sh.d} : \A k \in 1..Len(x) :
            x[k].tables[1].name = "orders" /\ x[k].tables[1].cols[1] = "id"}

\* the cache folders after the two MetabaseData of a first run were built
SchemaCacheBuilt ==
    /\ db_live = [inst \in {"src", "dst"} |-> [k \in 1..Len(LiveDatabases(inst)) |-> 1]]
    /\ db_files = [src |-> WarmFiles("src"),
                   dst |-> IF shape.same THEN << >> ELSE WarmFiles("dst")]
    /\ build = [src |-> Built(1..Len(shape.s)),
                dst |-> Built(IF shape.same THEN {} ELSE 1..Len(shape.d))]

\* the column of a one-column table is renamed
Renamed(ds) ==
    [ds EXCEPT !.tables[1].cols[1] = IF @ = "id" THEN "total" ELSE "id"]

\* database k of an instance changes in its Backend, updated_at with it
BackendUpdate(inst, k) ==
    /\ mpc = "idle"
    /\ naccess >= 1
    /\ inst = "dst" => ~shape.same
    /\ k \in 1..Len(LiveDatabases(inst))
    /\ db_live[inst][k] <= MaxUpdates
    /\ db_live' = [db_live EXCEPT ![inst][k] = @ + 1]
    /\ shape' = IF inst = "dst" THEN [shape EXCEPT !.d[k] = Renamed(@)]
                ELSE IF shape.same
                THEN [shape EXCEPT !.s[k] = Renamed(@), !.d[k] = Renamed(@)]
                ELSE [shape EXCEPT !.s[k] = Renamed(@)]
    /\ UNCHANGED <<source, destination, same_instance, file, mpc, si, di, match_dict,
                   fields_match, returned, branch, last, nmatchers, naccess>>
    /\ UNCHANGED <<db_files, build>>
    /\ UNCHANGED <<varsR, varsC, varsK, varsP, varsF, varsZ>>

\* the constructors of the two MetabaseData of a FieldMatcher, the source's
\* first
BuildBoth ==
    LET s     == populate_databases(db_files["src"], db_live["src"], shape.s, Len(shape.s))
        inst  == InstanceOf("dst")
        files == [db_files EXCEPT !["src"] = s.files]
        d     == populate_databases(files[inst], db_live[inst], shape.d, Len(shape.d))
    IN  [files |-> [files EXCEPT ![inst] = d.files], s |-> s, d |-> d]

\* remap_queries may build a FieldMatcher: none was built yet, or the one
\* before has answered
MayBuild ==
    /\ mpc = "new" \/ (mpc = "idle" /\ naccess >= 1)
    /\ nmatchers < MaxMatchers

\* the GET of database k raises in the constructor of one side's
\* MetabaseData: the databases listed before it have been gone through
BuildRaise(side, k) ==
    /\ MayBuild
    /\ k \in 1..Len(LiveDatabases(InstanceOf(side)))
    /\ LET inst  == InstanceOf(side)
           start == IF side = "src" THEN db_files
                    ELSE [db_files EXCEPT !["src"] = BuildBoth.s.files]
           part  == populate_databases(start[inst], db_live[inst], LiveDatabases(inst),
                                       k - 1)
       IN  /\ MustRefetch(part.files[k], db_live[inst][k])
           /\ db_files' = [start EXCEPT ![inst] = part.files]
           /\ build' = [src |-> IF side = "src"
                                THEN [Built(part.fetched) EXCEPT !.raised = k]
                                ELSE Built(BuildBoth.s.fetched),
                        dst |-> IF side = "src" THEN NotBuilt
                                ELSE [Built(part.fetched) EXCEPT !.raised = k]]
    /\ UNCHANGED <<shape, source, destination, same_instance, file, mpc, si, di,
                   match_dict, fields_match, returned, branch, last, nmatchers, naccess>>
    /\ UNCHANGED db_live
    /\ UNCHANGED <<varsR, varsC, varsK, varsP, varsF, varsZ>>

\* FieldMatcher.__init__ over two freshly built MetabaseData objects
InitMatcher ==
    /\ source = Snapshot("src", shape.s)
    /\ destination = DestinationSnapshot(shape)
    /\ same_instance = shape.same
    /\ file = NoFile
    /\ mpc = "idle"
    /\ si = 1
    /\ di = 1
    /\ match_dict = EmptyDict
    /\ fields_match = NoValue
    /\ returned = NoValue
    /\ branch = "none"
    /\ last = NoLast
    /\ nmatchers = 1
    /\ naccess = 0

(***************************************************************************)
(* FieldMatcher.matches / FieldMatcher.match                               *)
(***************************************************************************)
\* `self.__data_source.cache`: match() reads the attribute `cache`, which is
\* the bound method MetabaseData.cache, not the property `cached`
CacheAttr(snapshot) == TRUE

\* SkipPair without the engine test
SkipPair_EngineIgnored(same, source_element, destination_element) ==
    same /\ source_element.id = destination_element.id

\* SkipPair with the id test not guarded by __same_instance
SkipPair_IdAlone(same, source_element, destination_element) ==
    \/ source_element.id = destination_element.id
    \/ source_element.engine # destination_element.engine

\* the `continue` test of the loop body
SkipPair(same, source_element, destination_element) ==
    \/ (same /\ source_element.id = destination_element.id)
    \/ source_element.engine # destination_element.engine

\* `matches` with a truthy __databases_tables_fields_match: returns it
MatchesHit ==
    /\ Accessing
    /\ mpc = "idle"
    /\ naccess < MaxAccesses
    /\ Truthy(fields_match.val)
    /\ returned' = Some(fields_match.val)
    /\ naccess' = naccess + 1
    /\ UNCHANGED <<shape, source, destination, same_instance, file, mpc, si, di,
                   match_dict, fields_match, branch, last, nmatchers>>
    /\ UNCHANGED restM

\* `matches` calls match(), which finds field_match.json and loads it
MatchLoad ==
    /\ Accessing
    /\ mpc = "idle"
    /\ naccess < MaxAccesses
    /\ ~Truthy(fields_match.val)
    /\ CacheAttr(source) /\ CacheAttr(destination) /\ file.exists
    /\ match_dict' = JsonLoad(file.json)
    /\ fields_match' = Some(match_dict')
    /\ returned' = Some(match_dict')
    /\ branch' = "load"
    /\ naccess' = naccess + 1
    /\ UNCHANGED <<shape, source, destination, same_instance, file, mpc, si, di,
                   last, nmatchers>>
    /\ UNCHANGED restM

\* `matches` calls match(), which enters the loops
MatchBegin ==
    /\ Accessing
    /\ mpc = "idle"
    /\ naccess < MaxAccesses
    /\ ~Truthy(fields_match.val)
    /\ ~(CacheAttr(source) /\ CacheAttr(destination) /\ file.exists)
    /\ mpc' = "loop"
    /\ si' = 1
    /\ di' = 1
    /\ match_dict' = EmptyDict
    /\ branch' = "compute"
    /\ last' = NoLast
    /\ UNCHANGED <<shape, source, destination, same_instance, file, fields_match,
                   returned, nmatchers, naccess>>
    /\ UNCHANGED restM

NextPair ==
    IF di < Len(destination) THEN si' = si /\ di' = di + 1
    ELSE si' = si + 1 /\ di' = 1

\* one pass of the loop body that ends in `continue`
MatchPairSkip ==
    /\ mpc = "loop"
    /\ si <= Len(source)
    /\ SkipPair(same_instance, source[si], destination[di])
    /\ NextPair
    /\ last' = [s |-> si, d |-> di, skipped |-> TRUE, pairs |-> {}]
    /\ UNCHANGED <<shape, source, destination, same_instance, file, mpc, match_dict,
                   fields_match, returned, branch, nmatchers, naccess>>
    /\ UNCHANGED restM

\* one pass of the loop body that matches the pair and rewrites the file
MatchPairCompute ==
    /\ mpc = "loop"
    /\ si <= Len(source)
    /\ ~SkipPair(same_instance, source[si], destination[di])
    /\ LET s  == source[si]
           d  == destination[di]
           r  == match_databases(s, d)
           m0 == IF s.id \in DOMAIN match_dict THEN match_dict
                 ELSE Put(match_dict, s.id, EmptyDict)
       IN  /\ match_dict' = Put(m0, s.id, Put(m0[s.id], d.id, r.matching))
           /\ source' = [source EXCEPT ![si].tables = r.st]
           /\ destination' = [destination EXCEPT ![di].tables = r.dt]
           /\ last' = [s |-> si, d |-> di, skipped |-> FALSE, pairs |-> r.pairs]
    /\ file' = [exists |-> TRUE, json |-> JsonDump(match_dict'), dumped |-> match_dict']
    /\ NextPair
    /\ UNCHANGED <<shape, same_instance, mpc, fields_match, returned, branch,
                   nmatchers, naccess>>
    /\ UNCHANGED restM

\* the loops are over: match() stores and returns match_dict
MatchReturn ==
    /\ mpc = "loop"
    /\ si > Len(source)
    /\ fields_match' = Some(match_dict)
    /\ returned' = Some(match_dict)
    /\ mpc' = "idle"
    /\ naccess' = naccess + 1
    /\ UNCHANGED <<shape, source, destination, same_instance, file, si, di,
                   match_dict, branch, last, nmatchers>>
    /\ UNCHANGED restM

\* the run ends inside the loops of match() (the process is stopped, or
\* open() or json.dump raises): field_match.json keeps what the last
\* json.dump wrote, and the next run starts from the cache folder as it is
RunStopped ==
    /\ mpc = "loop"
    /\ nmatchers < MaxMatchers
    /\ mpc' = "new"
    /\ UNCHANGED <<shape, source, destination, same_instance, file, si, di, match_dict,
                   fields_match, returned, branch, last, nmatchers, naccess>>
    /\ UNCHANGED restM

\* remap_queries builds a FieldMatcher: two new MetabaseData objects over
\* the two Backends, and the cache folder as it was left
NewMatcher ==
    /\ MayBuild
    /\ nmatchers' = nmatchers + 1
    /\ source' = Snapshot("src", BuildBoth.s.payloads)
    /\ destination' = Snapshot(IF shape.same THEN "src" ELSE "dst", BuildBoth.d.payloads)
    /\ db_files' = BuildBoth.files
    /\ build' = [src |-> Built(BuildBoth.s.fetched), dst |-> Built(BuildBoth.d.fetched)]
    /\ fields_match' = NoValue
    /\ returned' = NoValue
    /\ match_dict' = EmptyDict
    /\ branch' = "none"
    /\ last' = NoLast
    /\ naccess' = 0
    /\ si' = 1
    /\ di' = 1
    /\ mpc' = "idle"
    /\ UNCHANGED <<shape, same_instance, file>>
    /\ UNCHANGED db_live
    /\ UNCHANGED <<varsR, varsC, varsK, varsP, varsF, varsZ>>

(***************************************************************************)
(* remap_queries                                                           *)
(*                                                                         *)
(* A query (one card of the dashboard) is a record: its name ("" when the  *)
(* card has none), whether it has a dataset_query, that query's database   *)
(* id, whether it has a `native` section, the SQL text, whether the native *)
(* section has `template-tags`, and the tags in the order of the dict.  A  *)
(* tag has a `dimension` ["field", id, ...] or none.                       *)
(***************************************************************************)
\* queries of one dashboard
MaxQueries == 2
\* template tags of one query
MaxTags == 2
\* calls of remap_queries
MaxRemaps == 2

\* SQL text: words, single white-space characters, other characters
W(v) == [k |-> "w", v |-> v]

Sp == [k |-> "s", v |-> " "]

Pn(v) == [k |-> "p", v |-> v]

\* SELECT * FROM <table> WHERE ...
SqlFromWhere(t) == <<W("SELECT"), Sp, Pn("*"), Sp, W("FROM"), Sp, W(t), Sp, W("WHERE")>>

Tag(f) == [has_dim |-> TRUE, dim |-> f]

NoDimension == [has_dim |-> FALSE, dim |-> 0]

\* a card without dataset_query (a text card)
TextCard(name) ==
    [name |-> name, has_dq |-> FALSE, database |-> 0, has_native |-> FALSE,
     sql |-> << >>, has_tags |-> FALSE, tags |-> << >>]

\* a card built with the query builder: dataset_query without `native`
StructuredCard(name, db) ==
    [name |-> name, has_dq |-> TRUE, database |-> db, has_native |-> FALSE,
     sql |-> << >>, has_tags |-> FALSE, tags |-> << >>]

\* a SQL card
NativeCard(name, db, sql, tags) ==
    [name |-> name, has_dq |-> TRUE, database |-> db, has_native |-> TRUE,
     sql |-> sql, has_tags |-> TRUE, tags |-> tags]

\* a SQL card whose native section has no `template-tags` key
UntaggedCard(name, db, sql) ==
    [name |-> name, has_dq |-> TRUE, database |-> db, has_native |-> TRUE,
     sql |-> sql, has_tags |-> FALSE, tags |-> << >>]

\* database ids the queries of the model name: 3 is no database of the source
QueryDatabases == {1, 3}

\* field ids the dimensions of the model name: 999 is no field of the source
QueryDims == {111, 999}

TagLists ==
    UNION {[1..n -> {NoDimension} \cup {Tag(f) : f \in QueryDims}] : n \in 0..MaxTags}

RemapCards ==
    {TextCard("card"), StructuredCard("card", 1),
     UntaggedCard("card", 1, SqlFromWhere("orders"))}
    \cup {NativeCard("card", db, SqlFromWhere("orders"), tl) :
            db \in QueryDatabases, tl \in TagLists}

\* the arguments of the model's calls: no name, the name of a database (-db
\* Delta), the id of a database as the command line passes it (-db 1), an
\* enterprise name
RemapTargets ==
    {[database_name |-> "", enterprise_name |-> ""],
     [database_name |-> "Delta", enterprise_name |-> ""],
     [database_name |-> "1", enterprise_name |-> ""],
     [database_name |-> "", enterprise_name |-> "Delta"]}

RemapCalls ==
    {[queries |-> q, database_name |-> t.database_name,
      enterprise_name |-> t.enterprise_name] :
        q \in UNION {[1..n -> RemapCards] : n \in 1..MaxQueries}, t \in RemapTargets}

NoCall == [queries |-> << >>, database_name |-> "", enterprise_name |-> ""]

\* one database of one table orders(<column>)
RemapDb(e, fn) == [engine |-> e, tables |-> <<[name |-> "orders", cols |-> <<fn>>]>>]

RemapSource == <<RemapDb("postgres", "id"), RemapDb("mysql", "id")>>

RemapDestinations ==
    UNION {[1..n -> {RemapDb(e, "id") : e \in Engines}] : n \in 1..MaxDbs}
    \cup {<<RemapDb("postgres", "total")>>}

RemapScenarios ==
    {[s |-> RemapSource, d |-> d, same |-> FALSE] : d \in RemapDestinations}
    \cup {[s |-> RemapSource, d |-> RemapSource, same |-> TRUE]}

\* str.lower() over the words of the model
Lower(n) ==
    CASE n = "Alpha"      -> "alpha"
      [] n = "Beta"       -> "beta"
      [] n = "Gamma"      -> "gamma"
      [] n = "Delta"      -> "delta"
      [] n = "Orders"     -> "orders"
      [] n = "Customers"  -> "customers"
      [] n = "Dashboards" -> "dashboards"
      [] n = "Questions"  -> "questions"
      [] n = "Sales"      -> "sales"
      [] n = "Custom"     -> "custom"
      [] n = "Personal"   -> "personal"
      [] OTHER            -> n

\* `x.lower() if x else None`; "" stands for a missing argument
LowerOrNone(n) == IF n = "" THEN "None" ELSE Lower(n)

\* Metabase_API.domain of the destination
DestinationDomain(sh) ==
    [scheme |-> "https",
     host   |-> IF sh.same THEN <<"alpha", "seetransparent", "com">>
                ELSE <<"beta", "seetransparent", "com">>]

\* re.search(r"http(s)?://(\w+)(.\w+)*", domain).group(2): the first label
get_instance_name(domain) ==
    IF domain.scheme \in {"http", "https"} /\ Len(domain.host) > 0
    THEN [ok |-> TRUE, val |-> domain.host[1]]
    ELSE [ok |-> FALSE, val |-> ""]

RECURSIVE FindDatabase(_, _, _)
FindDatabase(data, wanted, k) ==
    IF k > Len(data) THEN [found |-> FALSE, id |-> 0]
    ELSE IF Lower(data[k].name) \in wanted THEN [found |-> TRUE, id |-> data[k].id]
    ELSE FindDatabase(data, wanted, k + 1)

\* the first database of GET /api/database named like one of the two names
get_database_id(data, database_name, enterprise_name) ==
    FindDatabase(data, {LowerOrNone(database_name), LowerOrNone(enterprise_name)}, 1)

HasEntry(map, s, d, f) ==
    /\ s \in DOMAIN map
    /\ d \in DOMAIN map[s]
    /\ f \in DOMAIN map[s][d]

Warning(f) == [level |-> "warning", msg |-> "ID: %s, field has no match", id |-> f]

\* MappedId that leaves the source field id
MappedId_Unchanged(map, s, d, f) == f

\* awesome_matching_id_dict[source_database_id][destination_database_id][id]
MappedId(map, s, d, f) == map[s][d][f]

\* LookupFailed without the except clause: the KeyError leaves remap_queries
LookupFailed_Raises(tag) == [tag |-> tag, warn |-> << >>, exc |-> "KeyError: map"]

\* the lookup raised: `except Exception` logs the warning
LookupFailed(tag) == [tag |-> tag, warn |-> <<Warning(tag.dim)>>, exc |-> ""]

\* the body of the loop over the template tags
RemapBinding(tag, map, s, d) ==
    IF ~tag.has_dim THEN [tag |-> tag, warn |-> << >>, exc |-> ""]
    ELSE IF HasEntry(map, s, d, tag.dim)
         THEN [tag  |-> [tag EXCEPT !.dim = MappedId(map, s, d, tag.dim)],
               warn |-> << >>, exc |-> ""]
         ELSE LookupFailed(tag)

RECURSIVE RemapTags(_, _, _, _, _, _)
RemapTags(tags, k, map, s, d, warn) ==
    IF k > Len(tags) THEN [tags |-> tags, warn |-> warn, exc |-> ""]
    ELSE LET r == RemapBinding(tags[k], map, s, d)
             t == [tags EXCEPT ![k] = r.tag]
         IN  IF r.exc # "" THEN [tags |-> t, warn |-> warn \o r.warn, exc |-> r.exc]
             ELSE RemapTags(t, k + 1, map, s, d, warn \o r.warn)

\* SetDatabase that leaves the database id of the query
SetDatabase_Kept(q, id) == q

\* dataset_query["database"] = destination_database_id
SetDatabase(q, id) == [q EXCEPT !.database = id]

\* remap_queries up to the FieldMatcher it builds
RemapBegin ==
    /\ rpc = "start"
    /\ LET name == IF rq_in.database_name # "" THEN [ok |-> TRUE, val |-> rq_in.database_name]
                   ELSE get_instance_name(DestinationDomain(shape))
           r    == get_database_id(DestinationSnapshot(shape), name.val,
                                   rq_in.enterprise_name)
       IN  IF name.ok /\ r.found
           THEN /\ destination_database_id' = r.id
                /\ rpc' = "matcher"
                /\ rerr' = ""
                /\ nmatchers' = nmatchers + 1
                /\ source' = Snapshot("src", shape.s)
                /\ destination' = DestinationSnapshot(shape)
                /\ fields_match' = NoValue
                /\ returned' = NoValue
                /\ match_dict' = EmptyDict
                /\ branch' = "none"
                /\ last' = NoLast
                /\ naccess' = 0
                /\ si' = 1
                /\ di' = 1
           ELSE /\ rpc' = "raised"
                /\ rerr' = IF name.ok THEN "ElementNotFound" ELSE "Exception"
                /\ UNCHANGED <<destination_database_id, nmatchers, source, destination,
                               fields_match, returned, match_dict, branch, last,
                               naccess, si, di>>
    /\ UNCHANGED <<shape, same_instance, file, mpc, rq_in, queries, qi,
                   awesome_matching_id_dict, log, nremaps>>
    /\ UNCHANGED <<varsC, varsX>>

\* awesome_matching_id_dict = <the value of matches>
RemapMatches ==
    /\ rpc = "matcher"
    /\ mpc = "idle"
    /\ naccess = 1
    /\ awesome_matching_id_dict' = returned.val
    /\ rpc' = "loop"
    /\ qi' = 1
    /\ UNCHANGED <<varsM, rq_in, queries, destination_database_id, log, rerr, nremaps>>
    /\ UNCHANGED <<varsC, varsX>>

\* a query without dataset_query is passed over
RemapQuerySkip ==
    /\ rpc = "loop"
    /\ qi <= Len(queries)
    /\ ~queries[qi].has_dq
    /\ qi' = qi + 1
    /\ UNCHANGED <<varsM, rq_in, queries, rpc, destination_database_id,
                   awesome_matching_id_dict, log, rerr, nremaps>>
    /\ UNCHANGED <<varsC, varsX>>

\* dataset_query["native"]["template-tags"] of a query that has none
RemapQueryKeyError ==
    /\ rpc = "loop"
    /\ qi <= Len(queries)
    /\ queries[qi].has_dq
    /\ ~(queries[qi].has_native /\ queries[qi].has_tags)
    /\ rpc' = "raised"
    /\ rerr' = IF queries[qi].has_native THEN "KeyError: template-tags"
               ELSE "KeyError: native"
    /\ UNCHANGED <<varsM, rq_in, queries, qi, destination_database_id,
                   awesome_matching_id_dict, log, nremaps>>
    /\ UNCHANGED <<varsC, varsX>>

\* the dimensions of one query are looked up, its database id is rewritten
RemapQuery ==
    /\ rpc = "loop"
    /\ qi <= Len(queries)
    /\ queries[qi].has_dq
    /\ queries[qi].has_native /\ queries[qi].has_tags
    /\ LET r == RemapTags(queries[qi].tags, 1, awesome_matching_id_dict,
                          queries[qi].database, destination_database_id, << >>)
       IN  /\ log' = log \o r.warn
           /\ IF r.exc # ""
              THEN /\ queries' = [queries EXCEPT ![qi].tags = r.tags]
                   /\ rpc' = "raised"
                   /\ rerr' = r.exc
                   /\ qi' = qi
              ELSE /\ queries' = [queries EXCEPT ![qi] =
                                      SetDatabase([@ EXCEPT !.tags = r.tags],
                                                  destination_database_id)]
                   /\ rpc' = rpc
                   /\ rerr' = rerr
                   /\ qi' = qi + 1
    /\ UNCHANGED <<varsM, rq_in, destination_database_id, awesome_matching_id_dict,
                   nremaps>>
    /\ UNCHANGED <<varsC, varsX>>

\* return queries
RemapReturn ==
    /\ rpc = "loop"
    /\ qi > Len(queries)
    /\ rpc' = "returned"
    /\ UNCHANGED <<varsM, rq_in, queries, qi, destination_database_id,
                   awesome_matching_id_dict, log, rerr, nremaps>>
    /\ UNCHANGED varsX
    /\ UNCHANGED <<varsC, varsX>>

\* the next dashboard: remap_queries is called again with the same arguments
RemapAgain ==
    /\ rpc \in {"returned", "raised"}
    /\ nremaps < MaxRemaps
    /\ nremaps' = nremaps + 1
    /\ rpc' = "start"
    /\ queries' = rq_in.queries
    /\ qi' = 1
    /\ log' = << >>
    /\ rerr' = ""
    /\ UNCHANGED <<varsM, rq_in, destination_database_id, awesome_matching_id_dict>>
    /\ UNCHANGED <<varsC, varsX>>

\* remap_queries is not running
RemapOff ==
    /\ rq_in = NoCall
    /\ queries = << >>
    /\ rpc = "off"
    /\ qi = 1
    /\ destination_database_id = 0
    /\ awesome_matching_id_dict = EmptyDict
    /\ log = << >>
    /\ rerr = ""
    /\ nremaps = 0

\* no FieldMatcher has been built yet
InitNoMatcher ==
    /\ source = Snapshot("src", shape.s)
    /\ destination = DestinationSnapshot(shape)
    /\ same_instance = shape.same
    /\ file = NoFile
    /\ mpc = "idle"
    /\ si = 1
    /\ di = 1
    /\ match_dict = EmptyDict
    /\ fields_match = NoValue
    /\ returned = NoValue
    /\ branch = "none"
    /\ last = NoLast
    /\ nmatchers = 0
    /\ naccess = 0

(***************************************************************************)
(* SQL text and names as check_tables and get_clean_queries read them: a   *)
(* text is a sequence of pieces, each a word (letters and digits), a white *)
(* space character, an underscore, another single character, or a tenant   *)
(* predicate <col> <op> '<val>'.  The texts of the model have no backticks *)
(* and name the source instance only as a whole word.                      *)
(***************************************************************************)
Us == [k |-> "u", v |-> "_"]

TenantPredicate(col, val) == [k |-> "t", v |-> <<col, "=", val>>]

\* SELECT * FROM <table> WHERE pm_domain_name = 'old'
SqlTenant(t) ==
    <<W("SELECT"), Sp, Pn("*"), Sp, W("FROM"), Sp, W(t), Sp, W("WHERE"), Sp,
      TenantPredicate("pm_domain_name", "old")>>

\* SELECT * FROM <table>
SqlBare(t) == <<W("SELECT"), Sp, Pn("*"), Sp, W("FROM"), Sp, W(t)>>

\* SELECT * FROM alpha.<table> WHERE pm_domain_name = 'old'
SqlPrefixed(t) ==
    <<W("SELECT"), Sp, Pn("*"), Sp, W("FROM"), Sp, W("alpha"), Pn("."), W(t), Sp,
      W("WHERE"), Sp, TenantPredicate("pm_domain_name", "old")>>

\* one character: \s, \W or "."
OneChar(piece) == piece.k \in {"s", "p", "u"}

\* \w
WordPiece(piece) == piece.k \in {"w", "u"}

\* re.sub(f"(`)?{old_database_name}(`)?.", "", query)
RECURSIVE RemoveDatabaseName(_, _, _)
RemoveDatabaseName(sql, old, k) ==
    IF k > Len(sql) THEN << >>
    ELSE IF sql[k] = W(old) /\ k + 1 <= Len(sql) /\ OneChar(sql[k + 1])
         THEN RemoveDatabaseName(sql, old, k + 2)
         ELSE <<sql[k]>> \o RemoveDatabaseName(sql, old, k + 1)

\* re.sub(re_owner, sub_text, query): a predicate on pm_domain_name becomes
\* one on the client's column and id, its operator kept
ReplaceTenant(sql, client_type, client_id) ==
    [k \in 1..Len(sql) |->
        IF sql[k].k = "t" /\ sql[k].v[1] = "pm_domain_name"
        THEN [k |-> "t", v |-> <<client_type, sql[k].v[2], client_id>>]
        ELSE sql[k]]

\* the body of get_clean_queries' loop; the KeyError of a card without native
\* SQL is passed over
CleanQuery(q, old_database_name, client_type, client_id) ==
    IF q.has_dq /\ q.has_native
    THEN [q EXCEPT !.sql = ReplaceTenant(RemoveDatabaseName(q.sql, old_database_name, 1),
                                         client_type, client_id)]
    ELSE q

get_clean_queries(qs, old_database_name, client_type, client_id) ==
    IF client_type = "enterprise" THEN qs
    ELSE [k \in 1..Len(qs) |-> CleanQuery(qs[k], old_database_name, client_type, client_id)]

RECURSIVE SkipSpaces(_, _)
SkipSpaces(sql, k) ==
    IF k <= Len(sql) /\ sql[k].k = "s" THEN SkipSpaces(sql, k + 1) ELSE k

\* the end of the run of \w pieces that starts at k (k - 1 when there is none)
RECURSIVE WordEnd(_, _)
WordEnd(sql, k) ==
    IF k <= Len(sql) /\ WordPiece(sql[k]) THEN WordEnd(sql, k + 1) ELSE k - 1

\* r"FROM\s+\W?(\w+|\d+)\W?\s" tried at piece k
FromAt(sql, k) ==
    IF ~(sql[k] = W("FROM") /\ k + 1 <= Len(sql) /\ sql[k + 1].k = "s")
    THEN [ok |-> FALSE, group |-> << >>]
    ELSE LET j == SkipSpaces(sql, k + 1)
             c == IF j <= Len(sql) /\ sql[j].k = "p" THEN j + 1 ELSE j
             e == WordEnd(sql, c)
             closed == \/ (e + 1 <= Len(sql) /\ sql[e + 1].k = "s")
                       \/ (e + 2 <= Len(sql) /\ OneChar(sql[e + 1]) /\ ~WordPiece(sql[e + 1])
                             /\ sql[e + 2].k = "s")
         IN  IF e >= c /\ closed THEN [ok |-> TRUE, group |-> SubSeq(sql, c, e)]
             ELSE [ok |-> FALSE, group |-> << >>]

\* re.search: the first place the pattern matches, or None
RECURSIVE SearchFrom(_, _)
SearchFrom(sql, k) ==
    IF k > Len(sql) THEN [ok |-> FALSE, group |-> << >>]
    ELSE IF FromAt(sql, k).ok THEN FromAt(sql, k)
    ELSE SearchFrom(sql, k + 1)

\* re.sub(" +", "_", s).lower()
RECURSIVE unify_str(_)
unify_str(str) ==
    IF str = << >> THEN << >>
    ELSE IF str[1].k = "s"
         THEN LET j == SkipSpaces(str, 1) IN <<Us>> \o unify_str(SubSeq(str, j, Len(str)))
         ELSE <<[str[1] EXCEPT !.v = Lower(str[1].v)]>> \o unify_str(Tail(str))

\* Table.display_name as Metabase derives it from the name
DisplayName(name) ==
    CASE name = "orders"    -> <<W("Orders")>>
      [] name = "customers" -> <<W("Customers")>>
      [] OTHER              -> <<W(name)>>

\* GET /api/table of the destination
ApiTables(sh) ==
    UNION {{[display_name |-> DisplayName(sh[d].tables[t].name),
             name         |-> <<W(sh[d].tables[t].name)>>] : t \in DOMAIN sh[d].tables} :
           d \in DOMAIN sh}

\* the keys of unify_key_names(tables_on_source["to_name"])
UnifiedDisplayNames(tables) == {unify_str(t.display_name) : t \in tables}

CheckWarning(table) ==
    [level |-> "warning", msg |-> "%s needed but not found", id |-> table]

\* check_tables' loop from query k on: the exception that ends it, or the
\* verdict and the warnings logged
RECURSIVE CheckFrom(_, _, _, _, _)
CheckFrom(qs, tables, k, valid, warn) ==
    IF k > Len(qs) THEN [exc |-> "", valid |-> valid, warn |-> warn]
    ELSE IF qs[k].name = "" THEN CheckFrom(qs, tables, k + 1, valid, warn)
    ELSE IF ~(qs[k].has_dq /\ qs[k].has_native)
         THEN [exc |-> "KeyError: native", valid |-> valid, warn |-> warn]
    ELSE LET m == SearchFrom(qs[k].sql, 1)
         IN  IF ~m.ok THEN [exc |-> "AttributeError", valid |-> valid, warn |-> warn]
             ELSE IF unify_str(m.group) \notin UnifiedDisplayNames(tables)
                  THEN CheckFrom(qs, tables, k + 1, FALSE,
                                 Append(warn, CheckWarning(m.group)))
                  ELSE CheckFrom(qs, tables, k + 1, valid, warn)

check_tables(tables, qs) == CheckFrom(qs, tables, 1, TRUE, << >>)

(***************************************************************************)
(* main, clone_multiple_dashboards, clone_collection_on_collection and     *)
(* create_and_link_dashboard.  "" stands for an argument that is None, 0   *)
(* for an id that is None.  The calls of create_and_link_dashboard of one  *)
(* run interleave step by step, as the tasks of the thread pool do; one    *)
(* remap_queries call runs at a time.                                      *)
(***************************************************************************)
\* cards of the dashboard under test
MaxCards == 2

SourceDomain == [scheme |-> "https", host |-> <<"alpha", "seetransparent", "com">>]

\* the cards of the model: SQL over a table the destination has, over one it
\* lacks, SQL that ends at the table name, SQL that names the source
\* database, SQL without template tags, a query-builder card and a markdown
\* card
CardKinds ==
    {NativeCard("Revenue", 1, SqlTenant("orders"), <<Tag(111)>>),
     NativeCard("Clients", 1, SqlTenant("customers"), <<Tag(111)>>),
     NativeCard("Clients", 1, SqlBare("customers"), <<Tag(111)>>),
     NativeCard("Revenue", 1, SqlPrefixed("orders"), <<Tag(111)>>),
     UntaggedCard("Totals", 1, SqlTenant("orders")),
     StructuredCard("Builder", 1),
     TextCard("")}

\* the collection the dashboards of the model are in
SalesCollection == 5

Dashboard(name, cards) ==
    [name |-> name, collection_id |-> SalesCollection, ordered_cards |-> cards]

\* dashboard 1 has any cards, dashboard 2 one SQL card
SourceDashboards ==
    {(1 :> Dashboard("KPI", c1) @@ 2 :> Dashboard("Churn", <<c2>>)) :
        c1 \in UNION {[1..n -> CardKinds] : n \in 1..MaxCards},
        c2 \in {NativeCard("Revenue", 1, SqlTenant("orders"), <<Tag(111)>>),
                NativeCard("Clients", 1, SqlTenant("customers"), <<Tag(111)>>)}}

\* -sd 1, -sl 1 2, -cc 5, or none of them
SourceArgs ==
    {[source_dashboard |-> 0, source_list |-> << >>, copy_collection |-> 0],
     [source_dashboard |-> 1, source_list |-> << >>, copy_collection |-> 0],
     [source_dashboard |-> 0, source_list |-> <<1, 2>>, copy_collection |-> 0],
     [source_dashboard |-> 0, source_list |-> << >>, copy_collection |-> SalesCollection]}

\* -pm, -oid, -ent
TenantArgs ==
    {[pm_domain |-> "", owner_id |-> "", enterprise |-> ""],
     [pm_domain |-> "acme", owner_id |-> "", enterprise |-> ""],
     [pm_domain |-> "", owner_id |-> "42", enterprise |-> ""],
     [pm_domain |-> "", owner_id |-> "", enterprise |-> "Delta"],
     [pm_domain |-> "acme", owner_id |-> "", enterprise |-> "Delta"]}

CloneArgs ==
    {[source_dashboard |-> s.source_dashboard, source_list |-> s.source_list,
      copy_collection |-> s.copy_collection, pm_domain |-> t.pm_domain,
      owner_id |-> t.owner_id, enterprise |-> t.enterprise,
      database_name |-> "", new_dashboard |-> "", backup |-> FALSE] :
        s \in SourceArgs, t \in TenantArgs}
    \cup {[source_dashboard |-> s.source_dashboard, source_list |-> s.source_list,
            copy_collection |-> s.copy_collection, pm_domain |-> "acme",
            owner_id |-> "", enterprise |-> "",
            database_name |-> "1", new_dashboard |-> "", backup |-> FALSE] :
              s \in {a \in SourceArgs : a.source_dashboard # 0}}

NoArgs ==
    [source_dashboard |-> 0, source_list |-> << >>, copy_collection |-> 0,
     pm_domain |-> "", owner_id |-> "", enterprise |-> "", database_name |-> "",
     new_dashboard |-> "", backup |-> FALSE]

\* config/domain_to_instance.csv: absent, or with a row for the destination
CsvFiles == {EmptyDict, ("beta" :> "acme")}

\* the root location "/"
Root == 0

\* None as a collection id, and "/None/" as a location
NoneId == -1

Collection(name, location) == [name |-> name, location |-> location]

\* the destination has no collection, or one personal collection
DestinationCollections == {<< >>, <<Collection("Personal", Root)>>}

\* one pair of Backends: the destination has orders, not customers
CloneScenario ==
    [s |-> <<RemapDb("postgres", "id")>>,
     d |-> <<RemapDb("postgres", "id"), RemapDb("mysql", "id")>>,
     same |-> FALSE]

\* re.match(r"^ *https://(.*).seetransparent.com", url), then the csv's entry
search_pm_domain_from_instance(pm_domain_from_instance, domain) ==
    IF /\ domain.scheme = "https"
       /\ Len(domain.host) = 3
       /\ domain.host[2] = "seetransparent" /\ domain.host[3] = "com"
       /\ domain.host[1] \in DOMAIN pm_domain_from_instance
       /\ pm_domain_from_instance[domain.host[1]] # ""
    THEN [ok |-> TRUE, val |-> pm_domain_from_instance[domain.host[1]]]
    ELSE [ok |-> FALSE, val |-> ""]

\* get_collection_name of the source
get_collection_name(collection_id) ==
    IF collection_id = SalesCollection THEN "Sales" ELSE "Not found"

\* the collections named so at that location
Located(colls, name, path) ==
    {k \in 1..Len(colls) : Lower(colls[k].name) = Lower(name) /\ colls[k].location = path}

\* get_collection_id: the id, the collections afterwards, whether it POSTed
get_collection_id(colls, name, path, create) ==
    IF colls = << >> THEN [id |-> NoneId, colls |-> colls, posted |-> FALSE]
    ELSE IF Located(colls, name, path) # {}
         THEN [id |-> CHOOSE k \in Located(colls, name, path) :
                         \A x \in Located(colls, name, path) : k <= x,
               colls |-> colls, posted |-> FALSE]
    ELSE IF create
         THEN [id |-> Len(colls) + 1, colls |-> Append(colls, Collection(name, path)),
               posted |-> TRUE]
    ELSE [id |-> NoneId, colls |-> colls, posted |-> FALSE]

Write(t, method, path) == [task |-> t, method |-> method, path |-> path]

Logged(t, level, msg) == [task |-> t, level |-> level, msg |-> msg]

Task(d, as_dict) ==
    [source_dashboard |-> d, as_dict |-> as_dict, pc |-> "submitted", queries |-> << >>,
     err |-> "", created |-> 0, populated |-> {}]

\* a call of create_and_link_dashboard that has ended
Ended(task) == task.pc \in {"warned", "failed", "done"}

\* get_info: the queries of the dashboard's cards, cleaned for the tenant
get_info(d, pm_domain_name, owner_id, enterprise_name) ==
    LET cards == src_dashboards[d].ordered_cards
        qs    == [k \in 1..Len(cards) |->
                     IF cards[k].name = "" THEN TextCard("") ELSE cards[k]]
        old   == get_instance_name(SourceDomain).val
    IN  IF pm_domain_name # ""
        THEN get_clean_queries(qs, old, "pm_domain_name", pm_domain_name)
        ELSE IF owner_id # ""
        THEN get_clean_queries(qs, old, "owner_id", owner_id)
        ELSE IF enterprise_name # ""
        THEN get_clean_queries(qs, enterprise_name, "enterprise", enterprise_name)
        ELSE qs

\* main and its clones are not running
CloneOff ==
    /\ args = NoArgs
    /\ csv = EmptyDict
    /\ src_dashboards = EmptyDict
    /\ dest_collections = << >>
    /\ mainpc = "off"
    /\ merr = ""
    /\ task_args = NoArgs
    /\ tasks = << >>
    /\ dest_writes = << >>
    /\ clog = << >>
    /\ remap_task = 0

(***************************************************************************)
(* main                                                                    *)
(***************************************************************************)
NoSource ==
    args.source_dashboard = 0 /\ args.copy_collection = 0 /\ args.source_list = << >>

NoTenant == args.pm_domain = "" /\ args.owner_id = "" /\ args.enterprise = ""

\* pm_domain as main settles it: the argument, else the csv's entry
SettledPmDomain ==
    IF NoTenant THEN search_pm_domain_from_instance(csv, DestinationDomain(shape))
    ELSE [ok |-> TRUE, val |-> args.pm_domain]

\* neither -sd, -cc nor -sl
MainNoSource ==
    /\ mainpc = "start"
    /\ NoSource
    /\ mainpc' = "raised"
    /\ merr' = "Exception: You must specify a source dashboard id"
    /\ UNCHANGED <<args, csv, src_dashboards, dest_collections, task_args, tasks,
                   dest_writes, clog, remap_task>>
    /\ UNCHANGED <<varsM, varsR, varsX>>

\* -cc: clone_collection_on_collection up to the submission of its tasks
MainCollection ==
    /\ mainpc = "start"
    /\ args.copy_collection # 0
    /\ LET g == get_collection_id(dest_collections,
                                  get_collection_name(args.copy_collection), Root, TRUE)
           ds == {d \in DOMAIN src_dashboards :
                     src_dashboards[d].collection_id = args.copy_collection}
       IN  /\ dest_collections' = g.colls
           /\ dest_writes' = IF g.posted
                             THEN Append(dest_writes, Write(0, "POST", "/api/collection/"))
                             ELSE dest_writes
           /\ tasks' = [k \in 1..Cardinality(ds) |->
                           Task(CHOOSE d \in ds : Cardinality({x \in ds : x < d}) = k - 1,
                                TRUE)]
    /\ task_args' = [args EXCEPT !.database_name = "", !.new_dashboard = ""]
    /\ mainpc' = "pool"
    /\ UNCHANGED <<args, csv, src_dashboards, merr, clog, remap_task>>
    /\ UNCHANGED <<varsM, varsR, varsX>>

\* no -pm, -oid or -ent, and no row of the csv for the destination
MainTenantMissing ==
    /\ mainpc = "start"
    /\ ~NoSource
    /\ args.copy_collection = 0
    /\ ~SettledPmDomain.ok
    /\ mainpc' = "raised"
    /\ merr' = "ValueError: No pm_domain_name provided or available in csv file."
    /\ UNCHANGED <<args, csv, src_dashboards, dest_collections, task_args, tasks,
                   dest_writes, clog, remap_task>>
    /\ UNCHANGED <<varsM, varsR, varsX>>

\* -sl: clone_multiple_dashboards up to the submission of its tasks
MainList ==
    /\ mainpc = "start"
    /\ args.copy_collection = 0
    /\ args.source_list # << >>
    /\ SettledPmDomain.ok
    /\ task_args' = [args EXCEPT !.pm_domain = SettledPmDomain.val, !.new_dashboard = ""]
    /\ tasks' = [k \in 1..Len(args.source_list) |-> Task(args.source_list[k], FALSE)]
    /\ mainpc' = "pool"
    /\ UNCHANGED <<args, csv, src_dashboards, dest_collections, merr, dest_writes, clog,
                   remap_task>>
    /\ UNCHANGED <<varsM, varsR, varsX>>

\* -sd: main calls create_and_link_dashboard itself
MainSingle ==
    /\ mainpc = "start"
    /\ args.copy_collection = 0
    /\ args.source_list = << >>
    /\ args.source_dashboard # 0
    /\ SettledPmDomain.ok
    /\ task_args' = [args EXCEPT !.pm_domain = SettledPmDomain.val]
    /\ tasks' = <<Task(args.source_dashboard, FALSE)>>
    /\ mainpc' = "single"
    /\ UNCHANGED <<args, csv, src_dashboards, dest_collections, merr, dest_writes, clog,
                   remap_task>>
    /\ UNCHANGED <<varsM, varsR, varsX>>

\* PoolLog of a loop that swallows the exceptions without logging them
PoolLog_Silent(ts, k) == [j \in 1..Len(ts) |-> Logged(j, "info", "Done")]

\* the errors as_completed logs for the tasks that raised
RECURSIVE PoolLog(_, _)
PoolLog(ts, k) ==
    IF k > Len(ts) THEN << >>
    ELSE (IF ts[k].pc = "failed" THEN <<Logged(k, "error", ts[k].err)>>
          ELSE <<Logged(k, "info", "Done")>>) \o PoolLog(ts, k + 1)

\* every future has completed: the pool is left and main returns
MainJoin ==
    /\ mainpc = "pool"
    /\ \A t \in 1..Len(tasks) : Ended(tasks[t])
    /\ clog' = clog \o PoolLog(tasks, 1)
    /\ mainpc' = "done"
    /\ UNCHANGED <<args, csv, src_dashboards, dest_collections, merr, task_args, tasks,
                   dest_writes, remap_task>>
    /\ UNCHANGED <<varsM, varsR, varsX>>

\* create_and_link_dashboard has returned to main, or raised through it
MainSingleEnd ==
    /\ mainpc = "single"
    /\ Ended(tasks[1])
    /\ mainpc' = IF tasks[1].pc = "failed" THEN "raised" ELSE "done"
    /\ merr' = IF tasks[1].pc = "failed" THEN tasks[1].err ELSE merr
    /\ UNCHANGED <<args, csv, src_dashboards, dest_collections, task_args, tasks,
                   dest_writes, clog, remap_task>>
    /\ UNCHANGED <<varsM, varsR, varsX>>

(***************************************************************************)
(* create_and_link_dashboard, one call per task                            *)
(***************************************************************************)
Running == mainpc \in {"pool", "single"}

\* log records of task t for the warnings w
Tagged(t, w) == [k \in 1..Len(w) |-> Logged(t, w[k].level, w[k].msg)]

\* queries = get_info(...)
TaskGetInfo(t) ==
    /\ Running
    /\ tasks[t].pc = "submitted"
    /\ tasks' = [tasks EXCEPT
                   ![t].queries = get_info(tasks[t].source_dashboard, task_args.pm_domain,
                                           task_args.owner_id, task_args.enterprise),
                   ![t].pc = "info"]
    /\ UNCHANGED <<args, csv, src_dashboards, dest_collections, mainpc, merr, task_args,
                   dest_writes, clog, remap_task>>
    /\ UNCHANGED <<varsM, varsR, varsX>>

\* check_tables(...): it raises, or answers False ("Cannot copy", return), or
\* answers True
TaskCheckTables(t) ==
    /\ Running
    /\ tasks[t].pc = "info"
    /\ LET r == check_tables(ApiTables(shape.d), tasks[t].queries)
       IN  IF r.exc # ""
           THEN /\ tasks' = [tasks EXCEPT ![t].pc = "failed", ![t].err = r.exc]
                /\ clog' = clog \o Tagged(t, r.warn)
           ELSE IF ~r.valid
           THEN /\ tasks' = [tasks EXCEPT ![t].pc = "warned"]
                /\ clog' = clog \o Tagged(t, r.warn)
                             \o <<Logged(t, "warning", "Cannot copy")>>
           ELSE /\ tasks' = [tasks EXCEPT ![t].pc = "checked"]
                /\ clog' = clog
    /\ UNCHANGED <<args, csv, src_dashboards, dest_collections, mainpc, merr, task_args,
                   dest_writes, remap_task>>
    /\ UNCHANGED <<varsM, varsR, varsX>>

\* `if enterprise:` remap_queries(..., enterprise=enterprise): remap_queries
\* has no parameter of that name
TaskRemapTypeError(t) ==
    /\ Running
    /\ tasks[t].pc = "checked"
    /\ task_args.enterprise # ""
    /\ tasks' = [tasks EXCEPT ![t].pc = "failed", ![t].err = "TypeError"]
    /\ UNCHANGED <<args, csv, src_dashboards, dest_collections, mainpc, merr, task_args,
                   dest_writes, clog, remap_task>>
    /\ UNCHANGED <<varsM, varsR, varsX>>

\* remap_queries(queries=queries, database_name=destination_database)
TaskRemapCall(t) ==
    /\ Running
    /\ tasks[t].pc = "checked"
    /\ task_args.enterprise = ""
    /\ rpc = "idle"
    /\ rq_in' = [queries |-> tasks[t].queries, database_name |-> task_args.database_name,
                 enterprise_name |-> ""]
    /\ queries' = tasks[t].queries
    /\ rpc' = "start"
    /\ qi' = 1
    /\ log' = << >>
    /\ rerr' = ""
    /\ nremaps' = nremaps + 1
    /\ remap_task' = t
    /\ tasks' = [tasks EXCEPT ![t].pc = "remap"]
    /\ UNCHANGED <<args, csv, src_dashboards, dest_collections, mainpc, merr, task_args,
                   dest_writes, clog>>
    /\ UNCHANGED <<varsM, destination_database_id, awesome_matching_id_dict>>
    /\ UNCHANGED varsX

\* remap_queries returned the queries
TaskRemapDone(t) ==
    /\ tasks[t].pc = "remap"
    /\ remap_task = t
    /\ rpc = "returned"
    /\ tasks' = [tasks EXCEPT ![t].queries = queries, ![t].pc = "remapped"]
    /\ clog' = clog \o Tagged(t, log)
    /\ rpc' = "idle"
    /\ remap_task' = 0
    /\ UNCHANGED <<args, csv, src_dashboards, dest_collections, mainpc, merr, task_args,
                   dest_writes>>
    /\ UNCHANGED <<varsM, rq_in, queries, qi, destination_database_id,
                   awesome_matching_id_dict, log, rerr, nremaps>>
    /\ UNCHANGED varsX

\* remap_queries raised
TaskRemapRaised(t) ==
    /\ tasks[t].pc = "remap"
    /\ remap_task = t
    /\ rpc = "raised"
    /\ tasks' = [tasks EXCEPT ![t].pc = "failed", ![t].err = rerr]
    /\ clog' = clog \o Tagged(t, log)
    /\ rpc' = "idle"
    /\ remap_task' = 0
    /\ UNCHANGED <<args, csv, src_dashboards, dest_collections, mainpc, merr, task_args,
                   dest_writes>>
    /\ UNCHANGED <<varsM, rq_in, queries, qi, destination_database_id,
                   awesome_matching_id_dict, log, rerr, nremaps>>
    /\ UNCHANGED varsX

\* the POSTs of a get_collection_id call
CollectionPost(t, g) ==
    IF g.posted THEN <<Write(t, "POST", "/api/collection/")>> ELSE << >>

\* f"/{collection_id}/"
Under(id) == id

\* create_new up to populate_cards: the collections of the dashboard, the
\* dashboard, the collections of its questions
TaskCreateDashboard(t) ==
    /\ Running
    /\ tasks[t].pc = "remapped"
    /\ LET source_collection_id == src_dashboards[tasks[t].source_dashboard].collection_id
           source_collection_name ==
               IF source_collection_id # 0 THEN get_collection_name(source_collection_id)
               ELSE "Custom"
           g1 == get_collection_id(dest_collections, "Dashboards", Root, TRUE)
           g2 == get_collection_id(g1.colls, source_collection_name, Under(g1.id), TRUE)
           created_dashboard_id == 100 + t
           g3 == get_collection_id(g2.colls, "Questions", Root, TRUE)
           g4 == get_collection_id(g3.colls, source_collection_name, Under(g3.id), TRUE)
           questions == Collection(ToString(created_dashboard_id),
                                   IF g4.id = NoneId THEN Root ELSE g4.id)
       IN  /\ dest_collections' = Append(g4.colls, questions)
           /\ dest_writes' = dest_writes \o CollectionPost(t, g1) \o CollectionPost(t, g2)
                               \o <<Write(t, "POST", "/api/dashboard/")>>
                               \o CollectionPost(t, g3) \o CollectionPost(t, g4)
                               \o <<Write(t, "POST", "/api/collection/")>>
           /\ tasks' = [tasks EXCEPT ![t].created = created_dashboard_id,
                                     ![t].pc = "created"]
    /\ UNCHANGED <<args, csv, src_dashboards, mainpc, merr, task_args, clog, remap_task>>
    /\ UNCHANGED <<varsM, varsR, varsX>>

\* populate_single_card for card k: a named card is created and added to the
\* dashboard, a card without name is added
TaskPopulateCard(t, k) ==
    /\ Running
    /\ tasks[t].pc = "created"
    /\ k \in 1..Len(tasks[t].queries)
    /\ k \notin tasks[t].populated
    /\ dest_writes' = dest_writes
         \o (IF tasks[t].queries[k].name # ""
             THEN <<Write(t, "POST", "/api/card")>> ELSE << >>)
         \o <<Write(t, "POST", "/api/dashboard/{id}/cards")>>
    /\ tasks' = [tasks EXCEPT ![t].populated = @ \cup {k}]
    /\ UNCHANGED <<args, csv, src_dashboards, dest_collections, mainpc, merr, task_args,
                   clog, remap_task>>
    /\ UNCHANGED <<varsM, varsR, varsX>>

AllPopulated_Whenever(task) == TRUE

\* populate_cards has left its `with` block: every future has ended
AllPopulated(task) == task.populated = 1..Len(task.queries)

\* connect_filters once populate_cards has joined its threads
TaskConnectFilters(t) ==
    /\ Running
    /\ tasks[t].pc = "created"
    /\ AllPopulated(tasks[t])
    /\ dest_writes' = Append(dest_writes, Write(t, "PUT", "/api/dashboard/{id}/cards"))
    /\ tasks' = [tasks EXCEPT ![t].pc = "done"]
    /\ UNCHANGED <<args, csv, src_dashboards, dest_collections, mainpc, merr, task_args,
                   clog, remap_task>>
    /\ UNCHANGED <<varsM, varsR, varsX>>

(***************************************************************************)
(* Two FieldMatchers of two concurrent clone tasks over one instance pair. *)
(*                                                                         *)
(* Each task has its own MetabaseData objects and its own match_dict; the  *)
(* two share field_match.json.  open(..., "w") empties the file, json.dump *)
(* then writes the text: another thread can see the file missing, empty or *)
(* written.  json.load of an empty file raises.                            *)
(***************************************************************************)
Matchers == {1, 2}

Other(m) == 3 - m

\* the schemas of the race: every table is `orders`, so that match_databases
\* matches by name and calls hash() on no table
RaceScenarios ==
    {sh \in MultiScenarios :
        /\ ~sh.same
        /\ Len(sh.s) = MaxDbs
        /\ \A x \in {sh.s, sh.d} : \A k \in 1..Len(x) : x[k].tables[1].name = "orders"}

NoRaceFile == [exists |-> FALSE, text |-> "none", json |-> EmptyDict, dumped |-> EmptyDict]

\* the file between open(..., "w") and json.dump
OpenedRaceFile == [exists |-> TRUE, text |-> "empty", json |-> EmptyDict, dumped |-> EmptyDict]

DumpedRaceFile(obj) ==
    [exists |-> TRUE, text |-> "json", json |-> JsonDump(obj), dumped |-> obj]

FirstPair == [s |-> 1, d |-> 1]

\* the pair the two for loops visit after pos
PairAfter(pos) ==
    IF pos.d < Len(destination) THEN [s |-> pos.s, d |-> pos.d + 1]
    ELSE [s |-> pos.s + 1, d |-> 1]

\* match(): the file exists and json.load reads it
RaceLoad(m) ==
    /\ z_pc[m] = "new"
    /\ z_file.exists /\ z_file.text = "json"
    /\ z_dict' = [z_dict EXCEPT ![m] = JsonLoad(z_file.json)]
    /\ z_seen' = [z_seen EXCEPT ![m] = Some(z_file.dumped)]
    /\ z_pc' = [z_pc EXCEPT ![m] = "returned"]
    /\ UNCHANGED <<z_pos, z_file>>
    /\ UNCHANGED <<varsM, varsR, varsC, varsK, varsS, varsP, varsF>>

\* match(): the file exists and is empty, json.load raises
RaceLoadRaise(m) ==
    /\ z_pc[m] = "new"
    /\ z_file.exists /\ z_file.text = "empty"
    /\ z_pc' = [z_pc EXCEPT ![m] = "raised"]
    /\ UNCHANGED <<z_pos, z_dict, z_seen, z_file>>
    /\ UNCHANGED <<varsM, varsR, varsC, varsK, varsS, varsP, varsF>>

\* match(): no file, the loops begin
RaceBegin(m) ==
    /\ z_pc[m] = "new"
    /\ ~z_file.exists
    /\ z_pc' = [z_pc EXCEPT ![m] = "loop"]
    /\ z_pos' = [z_pos EXCEPT ![m] = FirstPair]
    /\ UNCHANGED <<z_dict, z_seen, z_file>>
    /\ UNCHANGED <<varsM, varsR, varsC, varsK, varsS, varsP, varsF>>

\* a pass of the loop body that ends in `continue`
RaceSkip(m) ==
    /\ z_pc[m] = "loop"
    /\ z_pos[m].s <= Len(source)
    /\ SkipPair(same_instance, source[z_pos[m].s], destination[z_pos[m].d])
    /\ z_pos' = [z_pos EXCEPT ![m] = PairAfter(z_pos[m])]
    /\ UNCHANGED <<z_pc, z_dict, z_seen, z_file>>
    /\ UNCHANGED <<varsM, varsR, varsC, varsK, varsS, varsP, varsF>>

\* match_dict[source_element.id][destination_element.id] = match_databases(...)
RaceCompute(m) ==
    /\ z_pc[m] = "loop"
    /\ z_pos[m].s <= Len(source)
    /\ ~SkipPair(same_instance, source[z_pos[m].s], destination[z_pos[m].d])
    /\ LET s  == source[z_pos[m].s]
           d  == destination[z_pos[m].d]
           r  == match_databases(s, d)
           m0 == IF s.id \in DOMAIN z_dict[m] THEN z_dict[m]
                 ELSE Put(z_dict[m], s.id, EmptyDict)
       IN  z_dict' = [z_dict EXCEPT ![m] = Put(m0, s.id, Put(m0[s.id], d.id, r.matching))]
    /\ z_pc' = [z_pc EXCEPT ![m] = "open"]
    /\ UNCHANGED <<z_pos, z_seen, z_file>>
    /\ UNCHANGED <<varsM, varsR, varsC, varsK, varsS, varsP, varsF>>

\* with open(f"{folder}/field_match.json", "w", ...) as f:
RaceOpen(m) ==
    /\ z_pc[m] = "open"
    /\ z_file' = OpenedRaceFile
    /\ z_pc' = [z_pc EXCEPT ![m] = "dump"]
    /\ UNCHANGED <<z_pos, z_dict, z_seen>>
    /\ UNCHANGED <<varsM, varsR, varsC, varsK, varsS, varsP, varsF>>

\* json.dump(match_dict, f, indent=4), and the file is closed
RaceDump(m) ==
    /\ z_pc[m] = "dump"
    /\ z_file' = DumpedRaceFile(z_dict[m])
    /\ z_pc' = [z_pc EXCEPT ![m] = "loop"]
    /\ z_pos' = [z_pos EXCEPT ![m] = PairAfter(z_pos[m])]
    /\ UNCHANGED <<z_dict, z_seen>>
    /\ UNCHANGED <<varsM, varsR, varsC, varsK, varsS, varsP, varsF>>

\* the loops are over: match() returns match_dict
RaceReturn(m) ==
    /\ z_pc[m] = "loop"
    /\ z_pos[m].s > Len(source)
    /\ z_pc' = [z_pc EXCEPT ![m] = "returned"]
    /\ UNCHANGED <<z_pos, z_dict, z_seen, z_file>>
    /\ UNCHANGED <<varsM, varsR, varsC, varsK, varsS, varsP, varsF>>

\* no two matchers at work
RaceOff ==
    /\ z_pc = [m \in Matchers |-> "off"]
    /\ z_pos = [m \in Matchers |-> FirstPair]
    /\ z_dict = [m \in Matchers |-> EmptyDict]
    /\ z_seen = [m \in Matchers |-> NoValue]
    /\ z_file = NoRaceFile

\* two clone tasks have built their FieldMatcher each; the folder holds no
\* field_match.json
InitRaceMatchers ==
    /\ z_pc = [m \in Matchers |-> "new"]
    /\ z_pos = [m \in Matchers |-> FirstPair]
    /\ z_dict = [m \in Matchers |-> EmptyDict]
    /\ z_seen = [m \in Matchers |-> NoValue]
    /\ z_file = NoRaceFile

NextRace ==
    \/ \E m \in Matchers : RaceLoad(m)
    \/ \E m \in Matchers : RaceLoadRaise(m)
    \/ \E m \in Matchers : RaceBegin(m)
    \/ \E m \in Matchers : RaceSkip(m)
    \/ \E m \in Matchers : RaceCompute(m)
    \/ \E m \in Matchers : RaceOpen(m)
    \/ \E m \in Matchers : RaceDump(m)
    \/ \E m \in Matchers : RaceReturn(m)

(***************************************************************************)
(* The lookup helpers Database.search_table and Table.search_field.        *)
(*                                                                         *)
(* Both compile the regular expression r"{pattern}", a plain string and    *)
(* no f-string: the text {pattern} itself, whatever the argument is.  They *)
(* then read element["name"] of each element in list order.  An element is *)
(* a Table or Field object, as Database.from_dict builds them, or a dict,  *)
(* as a Database built from plain dicts holds them; subscripting an object *)
(* of a dataclass raises TypeError.                                        *)
(***************************************************************************)
\* elements of a list searched
MaxElements == 2

LookupNames == {"orders", "orders_old", "customers", "tmp_{pattern}"}

\* re.search(re.compile(r"{pattern}"), name): the names holding the text {pattern}
LiteralFound(name) == name \in {"tmp_{pattern}"}

\* the patterns looked for and the names a regular expression search of
\* each one succeeds in
LookupPatterns == {"ord", "cust"}

Occurs(pattern, name) ==
    <<pattern, name>> \in {<<"ord", "orders">>, <<"ord", "orders_old">>,
                          <<"cust", "customers">>}

Element(kind, name) == [kind |-> kind, name |-> name]

ElementLists ==
    UNION {[1..n -> {Element(kind, name) : name \in LookupNames}] :
               n \in 0..MaxElements, kind \in {"object", "dict"}}

Found(i) == [exc |-> "", found |-> i]

Raised(exc) == [exc |-> exc, found |-> 0]

\* for element in ...: if re.search(compiled_pattern, element["name"]): return element
\* raise KeyError
RECURSIVE SearchElements(_, _)
SearchElements(elements, i) ==
    IF i > Len(elements) THEN Raised("KeyError")
    ELSE IF elements[i].kind = "object" THEN Raised("TypeError")
    ELSE IF LiteralFound(elements[i].name) THEN Found(i)
    ELSE SearchElements(elements, i + 1)

\* Database.search_table(pattern), over self.tables
search_table(tables, pattern) == SearchElements(tables, 1)

\* Table.search_field(pattern), over self.fields
search_field(fields, pattern) == SearchElements(fields, 1)

NoPureCall == [fn |-> "none", elements |-> << >>, pattern |-> ""]

NoPureResult == [exc |-> "pending", found |-> 0]

LookupCalls ==
    {[fn |-> fn, elements |-> elements, pattern |-> pattern] :
        fn \in {"search_table", "search_field"}, elements \in ElementLists,
        pattern \in LookupPatterns}

CallSearchTable ==
    /\ pure_call.fn = "search_table"
    /\ pure_result = NoPureResult
    /\ pure_result' = search_table(pure_call.elements, pure_call.pattern)
    /\ UNCHANGED <<pure_call, varsZ>>
    /\ UNCHANGED <<varsM, varsR, varsC, varsK, varsS, varsP>>

CallSearchField ==
    /\ pure_call.fn = "search_field"
    /\ pure_result = NoPureResult
    /\ pure_result' = search_field(pure_call.elements, pure_call.pattern)
    /\ UNCHANGED <<pure_call, varsZ>>
    /\ UNCHANGED <<varsM, varsR, varsC, varsK, varsS, varsP>>

\* no lookup helper is called
LookupOff ==
    /\ pure_call = NoPureCall
    /\ pure_result = NoPureResult

InitLookupCall ==
    /\ pure_call \in LookupCalls
    /\ pure_result = NoPureResult

NextLookup ==
    \/ CallSearchTable
    \/ CallSearchField

(***************************************************************************)
(* check_tables on its own: the tables GET /api/table lists for the        *)
(* destination and the queries of one dashboard.                           *)
(***************************************************************************)
\* queries of one check_tables call
MaxChecked == 2

\* an element of GET /api/table: display_name is what Metabase derives from
\* the name, or what an administrator typed over it
ApiTable(name, display_name) == [display_name |-> display_name, name |-> name]

CheckedTables ==
    {ApiTable(<<W("orders")>>, <<W("Orders")>>),
     ApiTable(<<W("customers")>>, <<W("Customers")>>),
     ApiTable(<<W("sales"), Us, W("orders")>>, <<W("Sales"), Sp, W("Orders")>>),
     ApiTable(<<W("orders")>>, <<W("Sales")>>)}

\* SELECT * FROM sales_orders WHERE pm_domain_name = 'old'
SqlUnderscored ==
    <<W("SELECT"), Sp, Pn("*"), Sp, W("FROM"), Sp, W("sales"), Us, W("orders"), Sp,
      W("WHERE"), Sp, TenantPredicate("pm_domain_name", "old")>>

\* a text card, SQL cards over orders, Orders, customers and sales_orders,
\* and a SQL card whose text ends at the table name
CheckedCards ==
    {TextCard(""),
     NativeCard("Revenue", 1, SqlTenant("orders"), << >>),
     NativeCard("Income", 1, SqlTenant("Orders"), << >>),
     NativeCard("Clients", 1, SqlTenant("customers"), << >>),
     NativeCard("Sold", 1, SqlUnderscored, << >>),
     NativeCard("Short", 1, SqlBare("orders"), << >>)}

CheckCalls ==
    {[fn |-> "check_tables", tables |-> ts, queries |-> qs] :
        ts \in SUBSET CheckedTables,
        qs \in UNION {[1..n -> CheckedCards] : n \in 0..MaxChecked}}

\* check_tables(metabase_instance, destination_database, queries)
CallCheckTables ==
    /\ pure_call.fn = "check_tables"
    /\ pure_result = NoPureResult
    /\ pure_result' = check_tables(pure_call.tables, pure_call.queries)
    /\ UNCHANGED <<pure_call, varsZ>>
    /\ UNCHANGED <<varsM, varsR, varsC, varsK, varsS, varsP>>

InitCheckTablesCall ==
    /\ pure_call \in CheckCalls
    /\ pure_result = NoPureResult

NextCheckTables == CallCheckTables

(***************************************************************************)
(* populate_cards and connect_filters of one create_new.                   *)
(*                                                                         *)
(* populate_cards submits one populate_single_card per query to a thread   *)
(* pool and collects the futures; the threads run their POSTs in any       *)
(* order, and a POST answers or raises.  connect_filters then reads the    *)
(* created dashboard and the source dashboard and sends one PUT.           *)
(***************************************************************************)
\* placements of a source dashboard
MaxPlaced == 3

\* a card without "name" (text card): card.get("name") is None
NoName == ""

\* an element of parameter_mappings
Mapping(parameter_id, card_id, target) ==
    [parameter_id |-> parameter_id, card_id |-> card_id, target |-> target]

\* an element of ordered_cards, as GET /api/dashboard/<id> answers it
Placement(id, card_id, name, sizeX, sizeY, col, row, parameter_mappings) ==
    [id |-> id, card_id |-> card_id, card |-> [name |-> name],
     sizeX |-> sizeX, sizeY |-> sizeY, col |-> col, row |-> row,
     visualization_settings |-> [text |-> name = NoName], series |-> << >>,
     parameter_mappings |-> parameter_mappings]

\* the ordered_cards of the source dashboards cloned here
SourceCards ==
    { \* two questions side by side and a text card
      <<Placement(11, 21, "Sales", 4, 3, 0, 0, <<Mapping("p1", 21, "f1")>>),
        Placement(12, 22, "Costs", 4, 3, 4, 0, <<Mapping("p1", 22, "f2")>>),
        Placement(13, 0, NoName, 8, 1, 0, 3, << >>)>>,
      \* one question placed twice, at two rows
      <<Placement(11, 21, "Sales", 4, 3, 0, 0, <<Mapping("p1", 21, "f1")>>),
        Placement(12, 21, "Sales", 4, 3, 0, 3, <<Mapping("p2", 21, "f1")>>),
        Placement(13, 0, NoName, 8, 1, 0, 6, << >>)>>,
      \* one question placed twice in one row, with two sizes
      <<Placement(11, 21, "Sales", 4, 3, 0, 0, <<Mapping("p1", 21, "f1")>>),
        Placement(12, 21, "Sales", 6, 4, 4, 0, << >>)>>,
      \* one question placed twice at the same place
      <<Placement(11, 21, "Sales", 4, 3, 0, 0, <<Mapping("p1", 21, "f1")>>),
        Placement(12, 21, "Sales", 4, 3, 0, 0, <<Mapping("p2", 21, "f1")>>)>> }

\* the source dashboard after its first card was moved down by its owner
Moved(cards) == [cards EXCEPT ![1].row = @ + 9]

\* get_info: the entry of `queries` made from a source placement
QueryOf(origin_card) ==
    [key |-> origin_card.id, name |-> origin_card.card.name,
     sizeX |-> origin_card.sizeX, sizeY |-> origin_card.sizeY,
     col |-> origin_card.col, row |-> origin_card.row,
     visualization_settings |-> origin_card.visualization_settings]

\* the future of a query: "new" before executor.submit, then "queued",
\* "carded" once POST /api/card answered, "done" or "failed" at the end
NoFuture == [state |-> "new", card_id |-> 0, collected |-> FALSE]

Finished(f) == f.state \in {"done", "failed"}

\* the id POST /api/card answers with
NewCardId(n) == 900 + n

\* the id of the placement POST /api/dashboard/<id>/cards makes
NewPlacementId(cards) == 700 + Len(cards) + 1

\* for k in tqdm_queries: executor.submit(populate_single_card, ...)
PopulateSubmit ==
    /\ p_pc = "populating"
    /\ p_i < Len(p_queries)
    /\ p_i' = p_i + 1
    /\ p_futures' = [p_futures EXCEPT ![p_i + 1].state = "queued"]
    /\ p_submits' = [p_submits EXCEPT ![p_i + 1] = @ + 1]
    /\ UNCHANGED <<p_pc, p_queries, p_source, p_dest, p_ncards, p_log, p_payload>>
    /\ UNCHANGED <<varsM, varsR, varsC, varsK, varsS, varsF, varsZ>>

\* populate_single_card of a card with name: POST /api/card answers
CardPost(k) ==
    /\ p_pc = "populating"
    /\ p_futures[k].state = "queued"
    /\ p_queries[k].name # NoName
    /\ p_ncards' = p_ncards + 1
    /\ p_futures' = [p_futures EXCEPT ![k].state = "carded",
                                      ![k].card_id = NewCardId(p_ncards + 1)]
    /\ UNCHANGED <<p_pc, p_queries, p_source, p_i, p_submits, p_dest, p_log, p_payload>>
    /\ UNCHANGED <<varsM, varsR, varsC, varsK, varsS, varsF, varsZ>>

\* POST /api/card raises
CardPostRaise(k) ==
    /\ p_pc = "populating"
    /\ p_futures[k].state = "queued"
    /\ p_queries[k].name # NoName
    /\ p_futures' = [p_futures EXCEPT ![k].state = "failed"]
    /\ UNCHANGED <<p_pc, p_queries, p_source, p_i, p_submits, p_dest, p_ncards, p_log,
                   p_payload>>
    /\ UNCHANGED <<varsM, varsR, varsC, varsK, varsS, varsF, varsZ>>

\* the thread of query k stands before POST /api/dashboard/<id>/cards
BeforeAdd(k) ==
    \/ p_futures[k].state = "carded"
    \/ p_futures[k].state = "queued" /\ p_queries[k].name = NoName

card_adding_json_Turned(card_to_copy, card_id) ==
    [cardId |-> card_id, parameter_mappings |-> << >>,
     sizeX |-> card_to_copy.sizeY, sizeY |-> card_to_copy.sizeX,
     col |-> card_to_copy.col, row |-> card_to_copy.row]

\* card_adding_json of populate_single_card; for a card without name the
\* Backend sets cardId to none and parameter_mappings to the empty list
card_adding_json(card_to_copy, card_id) ==
    [cardId |-> card_id, parameter_mappings |-> << >>,
     sizeX |-> card_to_copy.sizeX, sizeY |-> card_to_copy.sizeY,
     col |-> card_to_copy.col, row |-> card_to_copy.row]

\* POST /api/dashboard/<id>/cards answers: the Backend places the card
CardAdd(k) ==
    /\ p_pc = "populating"
    /\ BeforeAdd(k)
    /\ LET json == card_adding_json(p_queries[k], p_futures[k].card_id)
       IN  p_dest' = Append(p_dest,
                            Placement(NewPlacementId(p_dest), json.cardId,
                                      p_queries[k].name, json.sizeX, json.sizeY,
                                      json.col, json.row, json.parameter_mappings))
    /\ p_futures' = [p_futures EXCEPT ![k].state = "done"]
    /\ UNCHANGED <<p_pc, p_queries, p_source, p_i, p_submits, p_ncards, p_log, p_payload>>
    /\ UNCHANGED <<varsM, varsR, varsC, varsK, varsS, varsF, varsZ>>

\* POST /api/dashboard/<id>/cards raises
CardAddRaise(k) ==
    /\ p_pc = "populating"
    /\ BeforeAdd(k)
    /\ p_futures' = [p_futures EXCEPT ![k].state = "failed"]
    /\ UNCHANGED <<p_pc, p_queries, p_source, p_i, p_submits, p_dest, p_ncards, p_log,
                   p_payload>>
    /\ UNCHANGED <<varsM, varsR, varsC, varsK, varsS, varsF, varsZ>>

\* try: future.result() except Exception as e: logging.error(e) else: ...
AfterResult_Propagate(state) == IF state = "failed" THEN "raise" ELSE "ok"

AfterResult(state) == IF state = "failed" THEN "logged" ELSE "ok"

\* for future in as_completed(futures): one finished future
PopulateCollect(k) ==
    /\ p_pc = "populating"
    /\ p_i = Len(p_queries)
    /\ Finished(p_futures[k])
    /\ ~p_futures[k].collected
    /\ p_futures' = [p_futures EXCEPT ![k].collected = TRUE]
    /\ p_log' = IF AfterResult(p_futures[k].state) = "logged"
                THEN Append(p_log, k) ELSE p_log
    /\ p_pc' = IF AfterResult(p_futures[k].state) = "raise" THEN "raised" ELSE p_pc
    /\ UNCHANGED <<p_queries, p_source, p_i, p_submits, p_dest, p_ncards, p_payload>>
    /\ UNCHANGED <<varsM, varsR, varsC, varsK, varsS, varsF, varsZ>>

\* as_completed is exhausted, the executor is shut down: populate_cards returns
PopulateReturn ==
    /\ p_pc = "populating"
    /\ p_i = Len(p_queries)
    /\ \A k \in 1..Len(p_queries) : p_futures[k].collected
    /\ p_pc' = "populated"
    /\ UNCHANGED <<p_queries, p_source, p_i, p_futures, p_submits, p_dest, p_ncards, p_log,
                   p_payload>>
    /\ UNCHANGED <<varsM, varsR, varsC, varsK, varsS, varsF, varsZ>>

\* rename_parameter_mappings(input_dictionary, bastard_id_from_hell, replacement)
rename_parameter_mappings(input_dictionary, bastard_id_from_hell, replacement) ==
    [id |-> bastard_id_from_hell,
     row |-> input_dictionary.row,
     col |-> input_dictionary.col,
     sizeX |-> input_dictionary.sizeX,
     sizeY |-> input_dictionary.sizeY,
     visualization_settings |-> input_dictionary.visualization_settings,
     series |-> input_dictionary.series,
     parameter_mappings |->
         [e \in 1..Len(input_dictionary.parameter_mappings) |->
             [parameter_id |-> input_dictionary.parameter_mappings[e].parameter_id,
              card_id |-> replacement,
              target |-> input_dictionary.parameter_mappings[e].target]]]

SamePlace_NameOnly(source_card, destination_card) ==
    /\ source_card.card.name # NoName
    /\ source_card.card.name = destination_card.card.name

\* the tests of connect_filters on a source card, for a destination card with name
SamePlace(source_card, destination_card) ==
    /\ source_card.card.name # NoName
    /\ source_card.card.name = destination_card.card.name
    /\ source_card.sizeX = destination_card.sizeX
    /\ source_card.sizeY = destination_card.sizeY
    /\ source_card.col = destination_card.col
    /\ source_card.row = destination_card.row

\* the inner loop of connect_filters for one destination card, from source
\* card j on: one entry per source card that passes the tests
RECURSIVE EntriesFor(_, _, _)
EntriesFor(destination_card, source_cards, j) ==
    IF j > Len(source_cards) THEN << >>
    ELSE (IF SamePlace(source_cards[j], destination_card)
          THEN <<rename_parameter_mappings(source_cards[j], destination_card.id,
                                           destination_card.card_id)>>
          ELSE << >>)
         \o EntriesFor(destination_card, source_cards, j + 1)

\* the outer loop of connect_filters, from destination card i on
RECURSIVE destination_dashboard_parameters(_, _, _)
destination_dashboard_parameters(destination_cards, source_cards, i) ==
    IF i > Len(destination_cards) THEN << >>
    ELSE (IF destination_cards[i].card.name = NoName THEN << >>
          ELSE EntriesFor(destination_cards[i], source_cards, 1))
         \o destination_dashboard_parameters(destination_cards, source_cards, i + 1)

\* connect_filters: the PUT of the payload to the created dashboard
ConnectFilters ==
    /\ p_pc = "populated"
    /\ p_payload' = destination_dashboard_parameters(p_dest, p_source, 1)
    /\ p_pc' = "linked"
    /\ UNCHANGED <<p_queries, p_source, p_i, p_futures, p_submits, p_dest, p_ncards, p_log>>
    /\ UNCHANGED <<varsM, varsR, varsC, varsK, varsS, varsF, varsZ>>

\* no create_new is populating
PopulateOff ==
    /\ p_pc = "off"
    /\ p_queries = << >>
    /\ p_source = << >>
    /\ p_i = 0
    /\ p_futures = << >>
    /\ p_submits = << >>
    /\ p_dest = << >>
    /\ p_ncards = 0
    /\ p_log = << >>
    /\ p_payload = << >>

\* create_new has made the dashboard and calls populate_cards; the source
\* dashboard connect_filters will read is the one get_info read, or a newer one
InitPopulateCards ==
    \E cards \in SourceCards :
        /\ p_pc = "populating"
        /\ p_queries = [k \in 1..Len(cards) |-> QueryOf(cards[k])]
        /\ p_source \in {cards, Moved(cards)}
        /\ p_i = 0
        /\ p_futures = [k \in 1..Len(cards) |-> NoFuture]
        /\ p_submits = [k \in 1..Len(cards) |-> 0]
        /\ p_dest = << >>
        /\ p_ncards = 0
        /\ p_log = << >>
        /\ p_payload = << >>

NextPopulate ==
    \/ PopulateSubmit
    \/ \E k \in 1..MaxPlaced : k <= Len(p_queries) /\ CardPost(k)
    \/ \E k \in 1..MaxPlaced : k <= Len(p_queries) /\ CardPostRaise(k)
    \/ \E k \in 1..MaxPlaced : k <= Len(p_queries) /\ CardAdd(k)
    \/ \E k \in 1..MaxPlaced : k <= Len(p_queries) /\ CardAddRaise(k)
    \/ \E k \in 1..MaxPlaced : k <= Len(p_queries) /\ PopulateCollect(k)
    \/ PopulateReturn
    \/ ConnectFilters

(***************************************************************************)
(* The cache files of get_dashboard and check_filter_params_exists.        *)
(*                                                                         *)
(* A file is absent, empty (0 bytes) or holds a JSON text, and carries the *)
(* time of its last write (st_mtime, st_ctime).  A Backend GET answers or  *)
(* raises.  A call runs from its first line to its return or raise.        *)
(***************************************************************************)
\* calls of get_dashboard and check_filter_params_exists
MaxCalls == 3
\* the clock stops there
MaxTime == 3
\* edits of one dashboard in the source
MaxRevs == 2

\* 24 * 3600 seconds, in the unit of the model's clock (12 hours)
DAY == 2

DashboardIds == {5, 7}

\* the `parameters` of a dashboard: none, or one filter
ParameterSets == {<< >>, <<[slug |-> "tenant", type |-> "category"]>>}

\* the JSON GET /api/dashboard/<id> answers
DashboardJson(d, live) ==
    [id |-> d, name |-> "KPI", rev |-> live.rev, parameters |-> live.parameters]

NoResponse == [id |-> 0, name |-> "", rev |-> 0, parameters |-> << >>]

\* a dict key: the int n, or the str of its decimal digits
IntKey(n) == [t |-> "int", v |-> n]

StrKey(n) == [t |-> "str", v |-> n]

\* str(k)
KeyStr(k) == StrKey(k.v)

\* json.dump of a dict whose keys are str already: the same object as text
JsonText(value) == [object |-> value]

\* json.load of that text
JsonParse(text) == text.object

\* json.dump of the filter dict, then what json.load makes of the text: every
\* key is written as a str; of two members written under one name the later
\* one is kept, which is the int key, set after the str keys were loaded
JsonDumpFilters(d) ==
    [s \in {KeyStr(k) : k \in DOMAIN d} |->
        IF IntKey(s.v) \in DOMAIN d THEN d[IntKey(s.v)] ELSE d[s]]

NoCacheFile == [exists |-> FALSE, empty |-> TRUE, text |-> JsonText(NoResponse), time |-> 0]

\* open(path, "w") and nothing written
EmptyCacheFile(t) ==
    [exists |-> TRUE, empty |-> TRUE, text |-> JsonText(NoResponse), time |-> t]

WrittenFile(text, t) == [exists |-> TRUE, empty |-> FALSE, text |-> text, time |-> t]

\* filter_params.json; `fetched` is not in the file: it records, for the
\* properties, when the entry of each dashboard was answered by the Backend
NoFilterFile ==
    [exists |-> FALSE, empty |-> TRUE, json |-> EmptyDict, time |-> 0, fetched |-> EmptyDict]

EmptyFilterFile(t) ==
    [exists |-> TRUE, empty |-> TRUE, json |-> EmptyDict, time |-> t, fetched |-> EmptyDict]

WrittenFilters(json, t, fetched) ==
    [exists |-> TRUE, empty |-> FALSE, json |-> json, time |-> t, fetched |-> fetched]

\* OlderThanADay for a cache that never expires
OlderThanADay_Never(f) == FALSE

\* os.path.getmtime(path) < time.time() - 24 * 3600
OlderThanADay(f) == f.time < now - DAY

\* MustFetch of a get_dashboard without cache
MustFetch_Always(f, reload) == TRUE

\* the test of get_dashboard: fetch, or read the file
MustFetch(f, reload) == reload \/ ~f.exists \/ f.empty \/ OlderThanADay(f)

\* the first test of check_filter_params_exists: rewrite the file
MustRewrite(f) == ~f.exists \/ f.empty \/ OlderThanADay(f)

\* a call as the properties see it: its arguments, the branch it took, its
\* Backend GETs, whether it raised, what it returned, and the two files as
\* they were when it began
NoCacheCall ==
    [fn |-> "none", dashboard |-> 0, reload |-> FALSE, branch |-> "none", gets |-> 0,
     raised |-> FALSE, at |-> 0, response |-> NoResponse, filters |-> << >>,
     before |-> NoCacheFile, filters_before |-> NoFilterFile]

DashboardCall(d, reload, taken) ==
    [NoCacheCall EXCEPT !.fn = "get_dashboard", !.dashboard = d, !.reload = reload,
                        !.branch = taken, !.at = now, !.before = dashboard_files[d],
                        !.filters_before = filter_file]

FiltersCall(d, taken) ==
    [NoCacheCall EXCEPT !.fn = "check_filter_params_exists", !.dashboard = d,
                        !.branch = taken, !.at = now, !.before = dashboard_files[d],
                        !.filters_before = filter_file]

\* time passes
Tick ==
    /\ now < MaxTime
    /\ now' = now + 1
    /\ UNCHANGED <<live_dashboards, dashboard_files, filter_file, call, ncalls>>
    /\ UNCHANGED <<varsM, varsR, varsC, varsS, varsP, varsF, varsZ>>

\* somebody edits dashboard d in the source
BackendEdit(d, parameters) ==
    /\ live_dashboards[d].rev < MaxRevs
    /\ live_dashboards' = [live_dashboards EXCEPT ![d] =
                              [rev |-> @.rev + 1, parameters |-> parameters]]
    /\ UNCHANGED <<now, dashboard_files, filter_file, call, ncalls>>
    /\ UNCHANGED <<varsM, varsR, varsC, varsS, varsP, varsF, varsZ>>

\* get_dashboard: the GET answers, the file is written, the answer returned
GetDashboardFetch(d, reload) ==
    /\ ncalls < MaxCalls
    /\ MustFetch(dashboard_files[d], reload)
    /\ LET response == DashboardJson(d, live_dashboards[d])
       IN  /\ dashboard_files' = [dashboard_files EXCEPT
                                    ![d] = WrittenFile(JsonText(response), now)]
           /\ call' = [DashboardCall(d, reload, "fetch") EXCEPT
                          !.gets = 1, !.response = response]
    /\ ncalls' = ncalls + 1
    /\ UNCHANGED <<now, live_dashboards, filter_file>>
    /\ UNCHANGED <<varsM, varsR, varsC, varsS, varsP, varsF, varsZ>>

\* get_dashboard: the GET raises before the file is opened
GetDashboardRaise(d, reload) ==
    /\ ncalls < MaxCalls
    /\ MustFetch(dashboard_files[d], reload)
    /\ call' = [DashboardCall(d, reload, "fetch") EXCEPT !.gets = 1, !.raised = TRUE]
    /\ ncalls' = ncalls + 1
    /\ UNCHANGED <<now, live_dashboards, dashboard_files, filter_file>>
    /\ UNCHANGED <<varsM, varsR, varsC, varsS, varsP, varsF, varsZ>>

\* get_dashboard: the file is read
GetDashboardRead(d) ==
    /\ ncalls < MaxCalls
    /\ ~MustFetch(dashboard_files[d], FALSE)
    /\ call' = [DashboardCall(d, FALSE, "read") EXCEPT
                   !.response = JsonParse(dashboard_files[d].text)]
    /\ ncalls' = ncalls + 1
    /\ UNCHANGED <<now, live_dashboards, dashboard_files, filter_file>>
    /\ UNCHANGED <<varsM, varsR, varsC, varsS, varsP, varsF, varsZ>>

\* check_filter_params_exists, file absent, empty or older than a day: the
\* file is opened for writing, then the GET answers and the dict is dumped
FiltersRewrite(d) ==
    /\ ncalls < MaxCalls
    /\ MustRewrite(filter_file)
    /\ LET parameters == DashboardJson(d, live_dashboards[d]).parameters
           current_filters == Put(EmptyDict, IntKey(d), parameters)
       IN  /\ filter_file' = WrittenFilters(JsonDumpFilters(current_filters), now,
                                            Put(EmptyDict, d, now))
           /\ call' = [FiltersCall(d, "rewrite") EXCEPT
                          !.gets = 1, !.filters = current_filters[IntKey(d)]]
    /\ ncalls' = ncalls + 1
    /\ UNCHANGED <<now, live_dashboards, dashboard_files>>
    /\ UNCHANGED <<varsM, varsR, varsC, varsS, varsP, varsF, varsZ>>

\* the same, and the GET raises inside `with open(filter_file, "w")`
FiltersRewriteRaise(d) ==
    /\ ncalls < MaxCalls
    /\ MustRewrite(filter_file)
    /\ filter_file' = EmptyFilterFile(now)
    /\ call' = [FiltersCall(d, "rewrite") EXCEPT !.gets = 1, !.raised = TRUE]
    /\ ncalls' = ncalls + 1
    /\ UNCHANGED <<now, live_dashboards, dashboard_files>>
    /\ UNCHANGED <<varsM, varsR, varsC, varsS, varsP, varsF, varsZ>>

\* current_filters.get(str(source_dashboard)) of the loaded file
CachedFilters(d) ==
    IF StrKey(d) \in DOMAIN filter_file.json THEN filter_file.json[StrKey(d)] ELSE << >>

\* the file is read and has a non-empty list for the dashboard
FiltersHit(d) ==
    /\ ncalls < MaxCalls
    /\ ~MustRewrite(filter_file)
    /\ CachedFilters(d) # << >>
    /\ call' = [FiltersCall(d, "hit") EXCEPT !.filters = CachedFilters(d)]
    /\ ncalls' = ncalls + 1
    /\ UNCHANGED <<now, live_dashboards, dashboard_files, filter_file>>
    /\ UNCHANGED <<varsM, varsR, varsC, varsS, varsP, varsF, varsZ>>

\* the file is read and has nothing for the dashboard: the GET answers, the
\* entry is added under the int key and the file rewritten
FiltersMiss(d) ==
    /\ ncalls < MaxCalls
    /\ ~MustRewrite(filter_file)
    /\ CachedFilters(d) = << >>
    /\ LET parameters == DashboardJson(d, live_dashboards[d]).parameters
           current_filters == Put(filter_file.json, IntKey(d), parameters)
       IN  /\ filter_file' = WrittenFilters(JsonDumpFilters(current_filters), now,
                                            Put(filter_file.fetched, d, now))
           /\ call' = [FiltersCall(d, "miss") EXCEPT
                          !.gets = 1, !.filters = current_filters[IntKey(d)]]
    /\ ncalls' = ncalls + 1
    /\ UNCHANGED <<now, live_dashboards, dashboard_files>>
    /\ UNCHANGED <<varsM, varsR, varsC, varsS, varsP, varsF, varsZ>>

\* the same, and the GET raises: the file has been closed after reading
FiltersMissRaise(d) ==
    /\ ncalls < MaxCalls
    /\ ~MustRewrite(filter_file)
    /\ CachedFilters(d) = << >>
    /\ call' = [FiltersCall(d, "miss") EXCEPT !.gets = 1, !.raised = TRUE]
    /\ ncalls' = ncalls + 1
    /\ UNCHANGED <<now, live_dashboards, dashboard_files, filter_file>>
    /\ UNCHANGED <<varsM, varsR, varsC, varsS, varsP, varsF, varsZ>>

\* no call of the cache functions is followed
CacheOff ==
    /\ now = 0
    /\ live_dashboards = [d \in DashboardIds |-> [rev |-> 1, parameters |-> << >>]]
    /\ dashboard_files = [d \in DashboardIds |-> NoCacheFile]
    /\ filter_file = NoFilterFile
    /\ call = NoCacheCall
    /\ ncalls = 0

\* the source has dashboard 5 with a filter and dashboard 7 without; the
\* cache folder is empty, or holds the empty file of a run that was stopped
\* while writing
InitCacheFiles ==
    /\ now = 0
    /\ live_dashboards = [d \in DashboardIds |->
                             [rev |-> 1,
                              parameters |-> IF d = 5 THEN <<[slug |-> "tenant",
                                                              type |-> "category"]>>
                                             ELSE << >>]]
    /\ dashboard_files \in {[d \in DashboardIds |-> NoCacheFile],
                            [d \in DashboardIds |->
                                IF d = 5 THEN EmptyCacheFile(0) ELSE NoCacheFile]}
    /\ filter_file = NoFilterFile
    /\ call = NoCacheCall
    /\ ncalls = 0

NextCache ==
    \/ Tick
    \/ \E d \in DashboardIds, p \in ParameterSets : BackendEdit(d, p)
    \/ \E d \in DashboardIds, reload \in BOOLEAN : GetDashboardFetch(d, reload)
    \/ \E d \in DashboardIds, reload \in BOOLEAN : GetDashboardRaise(d, reload)
    \/ \E d \in DashboardIds : GetDashboardRead(d)
    \/ \E d \in DashboardIds : FiltersRewrite(d)
    \/ \E d \in DashboardIds : FiltersRewriteRaise(d)
    \/ \E d \in DashboardIds : FiltersHit(d)
    \/ \E d \in DashboardIds : FiltersMiss(d)
    \/ \E d \in DashboardIds : FiltersMissRaise(d)

InitClone ==
    /\ shape = CloneScenario
    /\ InitNoMatcher
    /\ rq_in = NoCall
    /\ queries = << >>
    /\ rpc = "idle"
    /\ qi = 1
    /\ destination_database_id = 0
    /\ awesome_matching_id_dict = EmptyDict
    /\ log = << >>
    /\ rerr = ""
    /\ nremaps = 0
    /\ args \in CloneArgs
    /\ csv \in CsvFiles
    /\ src_dashboards \in SourceDashboards
    /\ dest_collections \in DestinationCollections
    /\ mainpc = "start"
    /\ merr = ""
    /\ task_args = NoArgs
    /\ tasks = << >>
    /\ dest_writes = << >>
    /\ clog = << >>
    /\ remap_task = 0
    /\ CacheOff
    /\ LookupOff
    /\ RaceOff
    /\ PopulateOff
    /\ SchemaCacheBuilt

NextClone ==
    \/ MainNoSource
    \/ MainCollection
    \/ MainTenantMissing
    \/ MainList
    \/ MainSingle
    \/ MainJoin
    \/ MainSingleEnd
    \/ \E t \in 1..Len(tasks) : TaskGetInfo(t)
    \/ \E t \in 1..Len(tasks) : TaskCheckTables(t)
    \/ \E t \in 1..Len(tasks) : TaskRemapTypeError(t)
    \/ \E t \in 1..Len(tasks) : TaskRemapCall(t)
    \/ \E t \in 1..Len(tasks) : TaskRemapDone(t)
    \/ \E t \in 1..Len(tasks) : TaskRemapRaised(t)
    \/ \E t \in 1..Len(tasks) : TaskCreateDashboard(t)
    \/ \E t \in 1..Len(tasks), k \in 1..MaxCards : TaskPopulateCard(t, k)
    \/ \E t \in 1..Len(tasks) : TaskConnectFilters(t)
    \/ RemapBegin
    \/ MatchLoad
    \/ MatchBegin
    \/ MatchPairSkip
    \/ MatchPairCompute
    \/ MatchReturn
    \/ RemapMatches
    \/ RemapQuerySkip
    \/ RemapQueryKeyError
    \/ RemapQuery
    \/ RemapReturn

InitRemap ==
    /\ shape \in RemapScenarios
    /\ InitNoMatcher
    /\ rq_in \in RemapCalls
    /\ queries = rq_in.queries
    /\ rpc = "start"
    /\ qi = 1
    /\ destination_database_id = 0
    /\ awesome_matching_id_dict = EmptyDict
    /\ log = << >>
    /\ rerr = ""
    /\ nremaps = 1
    /\ CloneOff
    /\ CacheOff
    /\ LookupOff
    /\ RaceOff
    /\ PopulateOff
    /\ SchemaCacheBuilt

NextRemap ==
    \/ RemapBegin
    \/ MatchLoad
    \/ MatchBegin
    \/ MatchPairSkip
    \/ MatchPairCompute
    \/ MatchReturn
    \/ RemapMatches
    \/ RemapQuerySkip
    \/ RemapQueryKeyError
    \/ RemapQuery
    \/ RemapReturn
    \/ RemapAgain

InitMatch ==
    /\ RichScenario(shape) \/ shape \in MultiScenarios
    /\ InitMatcher
    /\ RemapOff
    /\ CloneOff
    /\ CacheOff
    /\ LookupOff
    /\ RaceOff
    /\ PopulateOff
    /\ SchemaCacheBuilt

\* one FieldMatcher, its first access of `matches`
NextMatch ==
    \/ MatchBegin
    \/ MatchPairSkip
    \/ MatchPairCompute
    \/ MatchReturn

\* no FieldMatcher yet, no field_match.json, and the schema caches of the two
\* instances empty or filled by an earlier run
InitRuns ==
    /\ shape \in RunScenarios
    /\ source = << >>
    /\ destination = << >>
    /\ same_instance = shape.same
    /\ file = NoFile
    /\ mpc = "new"
    /\ si = 1
    /\ di = 1
    /\ match_dict = EmptyDict
    /\ fields_match = NoValue
    /\ returned = NoValue
    /\ branch = "none"
    /\ last = NoLast
    /\ nmatchers = 0
    /\ naccess = 0
    /\ db_live = [inst \in {"src", "dst"} |-> [k \in 1..Len(LiveDatabases(inst)) |-> 1]]
    /\ db_files \in SchemaCaches
    /\ build = [src |-> NotBuilt, dst |-> NotBuilt]
    /\ RemapOff
    /\ CloneOff
    /\ CacheOff
    /\ LookupOff
    /\ RaceOff
    /\ PopulateOff

\* several FieldMatchers over one cache folder, several accesses each
NextRuns ==
    \/ MatchesHit
    \/ MatchLoad
    \/ MatchBegin
    \/ MatchPairSkip
    \/ MatchPairCompute
    \/ MatchReturn
    \/ RunStopped
    \/ NewMatcher
    \/ \E side \in {"src", "dst"}, k \in 1..MaxDbs : BuildRaise(side, k)
    \/ \E inst \in {"src", "dst"}, k \in 1..MaxDbs : BackendUpdate(inst, k)

vars == <<varsM, varsR, varsC, varsX>>

SpecMatch == InitMatch /\ [][NextMatch]_vars

SpecRuns == InitRuns /\ [][NextRuns]_vars

SpecRemap == InitRemap /\ [][NextRemap]_vars

SpecClone == InitClone /\ [][NextClone]_vars

InitCache ==
    /\ shape = CloneScenario
    /\ InitNoMatcher
    /\ RemapOff
    /\ CloneOff
    /\ SchemaCacheBuilt
    /\ PopulateOff
    /\ LookupOff
    /\ RaceOff
    /\ InitCacheFiles

SpecCache == InitCache /\ [][NextCache]_vars

InitPopulate ==
    /\ shape = CloneScenario
    /\ InitNoMatcher
    /\ RemapOff
    /\ CloneOff
    /\ CacheOff
    /\ LookupOff
    /\ RaceOff
    /\ SchemaCacheBuilt
    /\ InitPopulateCards

SpecPopulate == InitPopulate /\ [][NextPopulate]_vars

InitLookup ==
    /\ shape = CloneScenario
    /\ InitNoMatcher
    /\ RemapOff
    /\ CloneOff
    /\ CacheOff
    /\ RaceOff
    /\ SchemaCacheBuilt
    /\ PopulateOff
    /\ InitLookupCall

SpecLookup == InitLookup /\ [][NextLookup]_vars

InitCheckTables ==
    /\ shape = CloneScenario
    /\ InitNoMatcher
    /\ RemapOff
    /\ CloneOff
    /\ CacheOff
    /\ RaceOff
    /\ SchemaCacheBuilt
    /\ PopulateOff
    /\ InitCheckTablesCall

SpecCheckTables == InitCheckTables /\ [][NextCheckTables]_vars

InitRace ==
    /\ shape \in RaceScenarios
    /\ InitNoMatcher
    /\ RemapOff
    /\ CloneOff
    /\ CacheOff
    /\ SchemaCacheBuilt
    /\ PopulateOff
    /\ LookupOff
    /\ InitRaceMatchers

SpecRace == InitRace /\ [][NextRace]_vars

(***************************************************************************)
(* Properties of FieldMatcher                                              *)
(***************************************************************************)
HasPair(m, a, b) == a \in DOMAIN m /\ b \in DOMAIN m[a]

\* the schemas as the Backends list them, before any hash() call
SrcSchema == Snapshot("src", shape.s)

DstSchema == DestinationSnapshot(shape)

TableById(db, id) == CHOOSE t \in {db.tables[k] : k \in DOMAIN db.tables} : t.id = id

NameSet(t) == {t.fields[k].name : k \in DOMAIN t.fields}

NoDuplicateNames(t) == Cardinality(NameSet(t)) = Len(t.fields)

Computed == mpc = "idle" /\ branch = "compute" /\ returned.some

\* C1: after a recomputation by match(), for every source database S and
\* destination database D whose engines differ, no map of the matcher (the one
\* being built, the one stored, the one returned, the one in field_match.json)
\* has an entry under [S.id][D.id].
C1_NoEntryAcrossEngines ==
    branch = "compute" =>
        \A a \in DOMAIN source, b \in DOMAIN destination :
            source[a].engine # destination[b].engine =>
                /\ ~HasPair(match_dict, source[a].id, destination[b].id)
                /\ ~HasPair(fields_match.val, source[a].id, destination[b].id)
                /\ ~HasPair(returned.val, source[a].id, destination[b].id)
                /\ file.exists =>
                       ~HasPair(JsonLoad(file.json), source[a].id, destination[b].id)

\* A finished recomputation over a postgres and a mysql database that hold the
\* same table, beside a pair of equal engines that did get its entry.
C1_Witness ==
    /\ Computed
    /\ \E a \in DOMAIN source, b \in DOMAIN destination :
           /\ source[a].engine # destination[b].engine
           /\ shape.s[a].tables = shape.d[b].tables
    /\ \E a \in DOMAIN source, b \in DOMAIN destination :
           /\ HasPair(returned.val, source[a].id, destination[b].id)
           /\ Truthy(returned.val[source[a].id][destination[b].id])

\* C2: when source and destination are the same instance, no map of the matcher
\* has an entry [d][d]; when they are different instances, a finished
\* recomputation has an entry [S.id][D.id] for every pair of equal engines,
\* equal ids included.
C2_SelfPairOnlyOnSameInstance ==
    /\ same_instance =>
           \A m \in {match_dict, fields_match.val, returned.val} :
               \A d \in DOMAIN m : d \notin DOMAIN m[d]
    /\ (~same_instance /\ Computed) =>
           \A a \in DOMAIN source, b \in DOMAIN destination :
               (source[a].id = destination[b].id
                    /\ source[a].engine = destination[b].engine)
                   => HasPair(returned.val, source[a].id, destination[b].id)

\* One instance of two databases of one engine cloned onto itself: the two
\* cross pairs are in the returned map, the two self pairs are not.
C2_Witness ==
    /\ Computed
    /\ same_instance
    /\ Len(source) = 2
    /\ HasPair(returned.val, 1, 2) /\ Truthy(returned.val[1][2])
    /\ HasPair(returned.val, 2, 1)
    /\ ~HasPair(returned.val, 1, 1)
    /\ ~HasPair(returned.val, 2, 2)

AlphaBeta == <<[engine |-> "postgres",
                tables |-> <<[name |-> "orders", cols |-> <<"id", "total">>]>>]>>

AlphaBetaScenario == shape = [s |-> AlphaBeta, d |-> AlphaBeta, same |-> FALSE]

\* C3: with no field_match.json, source database Alpha (postgres, table orders
\* with fields id, total) and destination database Beta of another instance
\* (postgres, table orders with fields id, total) give exactly
\* {Alpha.id: {Beta.id: {id_src: id_dst, total_src: total_dst}}}.
C3_AlphaBetaMap ==
    (AlphaBetaScenario /\ Computed) =>
        /\ source[1].name = "Alpha" /\ destination[1].name = "Beta"
        /\ DOMAIN returned.val = {source[1].id}
        /\ DOMAIN returned.val[source[1].id] = {destination[1].id}
        /\ returned.val[source[1].id][destination[1].id]
               = [f \in {SrcSchema[1].tables[1].fields[p].id : p \in 1..2} |->
                      IdBase("dst") + f]
        /\ returned.val = (1 :> (1 :> (111 :> 1111 @@ 112 :> 1112)))

C3_Witness == AlphaBetaScenario /\ Computed /\ nmatchers = 1

\* C4: in match_databases a source table whose name equals no destination
\* table's name but whose set of field names is that of some destination table
\* is matched to a destination table with that field-name set, wherever that
\* table stands and whatever was compared before (stated for tables without
\* repeated field names).
C4_HashMatchWhereverItStands ==
    (mpc = "loop" /\ ~last.skipped) =>
        LET S == SrcSchema[last.s]
            D == DstSchema[last.d]
        IN  \A a \in DOMAIN S.tables :
                LET s  == S.tables[a]
                    eq == {b \in DOMAIN D.tables :
                              /\ NameSet(D.tables[b]) = NameSet(s)
                              /\ NoDuplicateNames(D.tables[b])}
                IN  (/\ NoDuplicateNames(s)
                     /\ \A b \in DOMAIN D.tables : D.tables[b].name # s.name
                     /\ eq # {})
                    => \E b \in eq : <<s.id, D.tables[b].id>> \in last.pairs

Permutation(x, y) ==
    /\ Len(x) = Len(y)
    /\ \A n \in FieldNames :
           Cardinality({k \in DOMAIN x : x[k] = n}) = Cardinality({k \in DOMAIN y : y[k] = n})

\* C5: two tables that list the same field names in different orders hash equal
\* at whatever point of a run hash() is called on them, also when one of them
\* has been hashed before and the other has not.
C5_HashOfPermutationsEqual ==
    \A a \in DOMAIN source, b \in DOMAIN destination :
        \A t \in DOMAIN source[a].tables, u \in DOMAIN destination[b].tables :
            LET listed1 == Names(SrcSchema[a].tables[t].fields)
                listed2 == Names(DstSchema[b].tables[u].fields)
            IN  (Permutation(listed1, listed2) /\ listed1 # listed2)
                    => HashTable(source[a].tables[t]).h = HashTable(destination[b].tables[u]).h

\* the field of table d that match_tables must pick for a source field named n:
\* the first one of that name, as a set of at most one position
FirstNamed(fields, n) ==
    {q \in DOMAIN fields :
        /\ fields[q].name = n
        /\ \A q2 \in DOMAIN fields : fields[q2].name = n => q <= q2}

\* C6: for every table pair the loop body handed to match_tables, the entry of
\* the database pair maps source field s to destination field d exactly when d
\* is the first field of that name in the destination table, in the order the
\* schema lists the fields and in the order the table holds them now; a source
\* field with no same-named destination field has no entry.
C6_FirstSameNamedField ==
    (mpc = "loop" /\ ~last.skipped) =>
        LET m == match_dict[source[last.s].id][destination[last.d].id]
        IN  \A pr \in last.pairs :
                LET s    == TableById(SrcSchema[last.s], pr[1])
                    d    == TableById(DstSchema[last.d], pr[2])
                    dnow == TableById(destination[last.d], pr[2])
                IN  \A p \in DOMAIN s.fields :
                        LET f == s.fields[p]
                        IN  IF FirstNamed(d.fields, f.name) = {}
                            THEN f.id \notin DOMAIN m
                            ELSE /\ f.id \in DOMAIN m
                                 /\ \E q \in FirstNamed(d.fields, f.name) :
                                        m[f.id] = d.fields[q].id
                                 /\ \E q \in FirstNamed(dnow.fields, f.name) :
                                        m[f.id] = dnow.fields[q].id

\* A table pair matched by hash whose destination lists two fields of one name
\* (the source field of that name goes to the first of them), and another pair
\* where a source field has no same-named destination field.
C6_Witness ==
    /\ mpc = "loop" /\ ~last.skipped
    /\ \E pr \in last.pairs :
           LET s == TableById(SrcSchema[last.s], pr[1])
               d == TableById(DstSchema[last.d], pr[2])
           IN  /\ s.name # d.name
               /\ Names(d.fields) = <<"id", "id">>
               /\ match_dict[1][1][s.fields[1].id] = d.fields[1].id
    /\ \E pr \in last.pairs :
           LET s == TableById(SrcSchema[last.s], pr[1])
               d == TableById(DstSchema[last.d], pr[2])
           IN  \E p \in DOMAIN s.fields : FirstNamed(d.fields, s.fields[p].name) = {}

(***************************************************************************)
(* Properties of remap_queries                                             *)
(***************************************************************************)
\* the queries the loop has gone through in the current call
Remapped == {j \in 1..Len(queries) : j < qi}

\* the template tags of query j as they were passed in
TagsIn(j) == rq_in.queries[j].tags

\* the dimension of tag k of query j names a field the map has an entry for
EntryFor(j, k) ==
    /\ TagsIn(j)[k].has_dim
    /\ rq_in.queries[j].database \in DOMAIN awesome_matching_id_dict
    /\ destination_database_id
         \in DOMAIN awesome_matching_id_dict[rq_in.queries[j].database]
    /\ TagsIn(j)[k].dim
         \in DOMAIN awesome_matching_id_dict[rq_in.queries[j].database][destination_database_id]

\* C7: once remap_queries has gone through a query with a dataset_query, every
\* template-tag dimension whose source field id f has an entry
\* map[source_db_id][destination_db_id][f] references that entry, and the
\* query's database id is the resolved destination database id.
C7_MappedDimensionAndDatabase ==
    \A j \in Remapped :
        rq_in.queries[j].has_dq =>
            \A k \in 1..Len(TagsIn(j)) :
                EntryFor(j, k) =>
                    /\ queries[j].tags[k].has_dim
                    /\ queries[j].tags[k].dim =
                         awesome_matching_id_dict[rq_in.queries[j].database]
                                                 [destination_database_id][TagsIn(j)[k].dim]
                    /\ queries[j].database = destination_database_id

\* remap_queries has returned queries of which one had a mapped dimension: its
\* field id and its database id are not the ones passed in
C7_Witness ==
    /\ rpc = "returned"
    /\ \E j \in Remapped :
           /\ rq_in.queries[j].has_dq
           /\ \E k \in 1..Len(TagsIn(j)) :
                  /\ EntryFor(j, k)
                  /\ queries[j].tags[k].dim # TagsIn(j)[k].dim
           /\ queries[j].database # rq_in.queries[j].database

\* the dimension of tag k of query j names a field the map has no entry for
NoEntryFor(j, k) == TagsIn(j)[k].has_dim /\ ~EntryFor(j, k)

\* C8: a template-tag dimension whose field id has no entry in the map (no
\* source database, no destination database or no field key) keeps its field
\* id and a warning is logged for it; the failed lookup raises nothing out of
\* remap_queries (the loop stops at a query only for its missing `native` or
\* `template-tags` section); the bindings after it are looked up as usual and
\* the query's database id is rewritten.
C8_UnmappedDimensionKeptWithWarning ==
    /\ rerr \in {"", "ElementNotFound", "KeyError: native", "KeyError: template-tags"}
    /\ \A j \in Remapped :
           rq_in.queries[j].has_dq =>
               \A k \in 1..Len(TagsIn(j)) :
                   NoEntryFor(j, k) =>
                       /\ queries[j].tags[k] = TagsIn(j)[k]
                       /\ \E w \in 1..Len(log) :
                              /\ log[w].level = "warning"
                              /\ log[w].id = TagsIn(j)[k].dim
                       /\ queries[j].database = destination_database_id
                       /\ \A k2 \in (k + 1)..Len(TagsIn(j)) :
                              EntryFor(j, k2) =>
                                  queries[j].tags[k2].dim # TagsIn(j)[k2].dim
    /\ (rpc = "raised" /\ rerr # "ElementNotFound") =>
           ~(queries[qi].has_native /\ queries[qi].has_tags)

\* remap_queries has returned two queries: the first had a dimension without
\* entry followed by one with an entry, which was mapped; the second query was
\* gone through as well
C8_Witness ==
    /\ rpc = "returned"
    /\ Len(queries) = 2
    /\ rq_in.queries[1].has_dq
    /\ Len(TagsIn(1)) = 2
    /\ NoEntryFor(1, 1)
    /\ EntryFor(1, 2)
    /\ queries[1].tags[2].dim # TagsIn(1)[2].dim
    /\ Len(log) >= 1
    /\ rq_in.queries[2].has_dq
    /\ queries[2].database = destination_database_id
    /\ queries[2].database # rq_in.queries[2].database

(***************************************************************************)
(* Properties of the clone of a dashboard                                  *)
(***************************************************************************)
\* the table a SQL text of the model selects from, the source database's name
\* before it left out
FromTable(sql) ==
    LET i == CHOOSE x \in 1..Len(sql) : sql[x] = W("FROM")
    IN  IF sql[i + 2] = W("alpha") /\ i + 4 <= Len(sql) /\ sql[i + 3] = Pn(".")
        THEN sql[i + 4].v
        ELSE sql[i + 2].v

\* a named SQL card over a table the destination does not have
AbsentTableCard(card) ==
    /\ card.name # ""
    /\ card.has_dq
    /\ card.has_native
    /\ \A d \in DOMAIN shape.d : \A t \in DOMAIN shape.d[d].tables :
           shape.d[d].tables[t].name # FromTable(card.sql)

HasAbsentTableCard(d) ==
    \E k \in DOMAIN src_dashboards[d].ordered_cards :
        AbsentTableCard(src_dashboards[d].ordered_cards[k])

\* the requests of task t that create a dashboard or a card
Creations(t) ==
    {w \in 1..Len(dest_writes) :
        /\ dest_writes[w].task = t
        /\ dest_writes[w].method = "POST"
        /\ dest_writes[w].path \in {"/api/dashboard/", "/api/card"}}

\* C9: the clone of a dashboard that has a named SQL card whose FROM table is
\* absent from the destination ends with the warning "Cannot copy", and the
\* destination receives no create-dashboard and no create-card request for it.
C9_AbsentTableEndsWithWarning ==
    \A t \in 1..Len(tasks) :
        HasAbsentTableCard(tasks[t].source_dashboard) =>
            /\ Creations(t) = {}
            /\ Ended(tasks[t]) =>
                   /\ tasks[t].pc = "warned"
                   /\ \E w \in 1..Len(clog) :
                          clog[w] = Logged(t, "warning", "Cannot copy")

\* no tenant identifier: none of -pm, -oid, -ent, and none found for the
\* destination in the csv
NoTenantIdentifier ==
    NoTenant /\ ~search_pm_domain_from_instance(csv, DestinationDomain(shape)).ok

\* C10: on the single, the list and the collection path, a clone whose
\* validation fails (no tenant identifier, or a table of a named SQL card
\* missing in the destination) sends no POST and no PUT to the destination.
C10_NoWriteAfterValidationFailure ==
    \A t \in 1..Len(tasks) :
        (NoTenantIdentifier \/ HasAbsentTableCard(tasks[t].source_dashboard)) =>
            \A w \in 1..Len(dest_writes) : dest_writes[w].task # t

(***************************************************************************)
(* Properties of the dashboard and filter caches (SpecCache)               *)
(***************************************************************************)
\* the file of the call's dashboard held a text and was not older than a day
\* when the call began
BeganOnFreshFile ==
    /\ call.before.exists
    /\ ~call.before.empty
    /\ ~(call.before.time < call.at - DAY)

\* the file of the call's dashboard held a text and was older than a day
BeganOnOldFile ==
    /\ call.before.exists
    /\ ~call.before.empty
    /\ call.before.time < call.at - DAY

\* C11: a get_dashboard(D, reload=False) that finds the file of D written by
\* an earlier get_dashboard, non-empty and not older than 24 hours, makes no
\* Backend call, does not raise, leaves the file alone and returns the JSON
\* that was fetched and written.
C11_FreshFileReadBack ==
    (call.fn = "get_dashboard" /\ ~call.reload /\ BeganOnFreshFile)
        => /\ call.gets = 0
           /\ ~call.raised
           /\ call.response = call.before.text.object
           /\ call.response.id = call.dashboard
           /\ dashboard_files[call.dashboard] = call.before

\* a read gave back the JSON of an earlier fetch, after the dashboard was
\* edited in the source and time had passed
C11_Witness ==
    /\ call.fn = "get_dashboard"
    /\ call.branch = "read"
    /\ call.gets = 0
    /\ call.at > call.before.time
    /\ call.response.rev < live_dashboards[call.dashboard].rev

\* C12: a get_dashboard(D) that returns and found the file of D older than
\* 24 hours has made exactly one Backend GET and has rewritten the file with
\* the answer, so that the file is not older than a day any more; and a
\* get_dashboard(D, reload=False) that finds the file not older than 24 hours
\* makes no GET and leaves the file as it is.
C12_OldFileRefetchedOnce ==
    [][(ncalls' = ncalls + 1 /\ call'.fn = "get_dashboard" /\ ~call'.raised)
          => LET d == call'.dashboard
                 f == dashboard_files[d]
             IN  /\ (f.exists /\ ~f.empty /\ f.time < now - DAY)
                        => /\ call'.gets = 1
                           /\ call'.response = DashboardJson(d, live_dashboards[d])
                           /\ dashboard_files'[d] = WrittenFile(JsonText(call'.response), now)
                           /\ ~(dashboard_files'[d].time < now' - DAY)
                 /\ (f.exists /\ ~f.empty /\ ~(f.time < now - DAY) /\ ~call'.reload)
                        => /\ call'.gets = 0
                           /\ dashboard_files' = dashboard_files]_vars

\* an old file was fetched again: the file now holds a later revision
C12_Witness ==
    /\ call.fn = "get_dashboard"
    /\ ~call.reload
    /\ BeganOnOldFile
    /\ call.gets = 1
    /\ call.response.rev > call.before.text.object.rev
    /\ dashboard_files[call.dashboard].time = call.at

\* C13: a call of get_dashboard or check_filter_params_exists whose Backend
\* GET raised has left the cache files as they were when it began.
C13_FetchFailureLeavesCacheFile ==
    call.raised => /\ dashboard_files[call.dashboard] = call.before
                   /\ filter_file = call.filters_before

(***************************************************************************)
(* Properties of the persisted correspondence and of the schema caches     *)
(***************************************************************************)
\* neither MetabaseData of the current FieldMatcher fetched a payload
CacheDerived == build.src.fetched = {} /\ build.dst.fetched = {}

\* the step is a call of match() by `matches`, from its first line
MatchCalled == mpc = "idle" /\ ~Truthy(fields_match.val) /\ (mpc' = "loop" \/ naccess' = naccess + 1)

\* C14: a call of match() that finds field_match.json, both snapshots built
\* from cached payloads only, does not enter the loops: it leaves the file and
\* the snapshots alone and stores and returns the dict that was dumped into
\* the file, with its integer keys at the three levels.
C14_PersistedMapLoaded ==
    [][(MatchCalled /\ file.exists /\ CacheDerived)
          => /\ mpc' = "idle"
             /\ branch' = "load"
             /\ returned' = Some(file.dumped)
             /\ fields_match' = Some(file.dumped)
             /\ file' = file
             /\ source' = source /\ destination' = destination]_vars

\* A second FieldMatcher over unchanged cached schemas returned the map the
\* first one persisted; a field id is looked up in it by integer keys.
C14_Witness ==
    /\ nmatchers = 2
    /\ CacheDerived
    /\ branch = "load"
    /\ returned.some
    /\ returned.val = file.dumped
    /\ HasPair(returned.val, 1, 1)
    /\ 111 \in DOMAIN returned.val[1][1]
    /\ returned.val[1][1][111] = 1111

\* C15: a call of match() on a FieldMatcher one of whose MetabaseData
\* fetched a database payload (no cached copy, or an older one) does not load
\* field_match.json: it enters the loops.
C15_RefetchedSchemaRecomputes ==
    [][(MatchCalled /\ ~CacheDerived) => (mpc' = "loop" /\ branch' = "compute")]_vars

\* the pairs of the two loops that stand before (a, b)
Before(a, b) ==
    {p \in (DOMAIN source) \X (DOMAIN destination) :
        p[1] < a \/ (p[1] = a /\ p[2] < b)}

\* the [S.id][D.id] keys of a map
PairsOf(m) == {<<S, D>> \in (DOMAIN m) \X (1..MaxDbs) : D \in DOMAIN m[S]}

\* the keys of the pairs before (si, di) whose loop body did not `continue`
ProcessedPairs ==
    {<<source[p[1]].id, destination[p[2]].id>> :
        p \in {q \in Before(si, di) :
                  ~((same_instance /\ source[q[1]].id = destination[q[2]].id)
                      \/ source[q[1]].engine # destination[q[2]].engine)}}

Outdated(files, inst) ==
    {k \in 1..Len(LiveDatabases(inst)) :
        ~files[inst][k].exists \/ files[inst][k].updated_at < db_live[inst][k]}

\* C17: when a FieldMatcher is built, the source's MetabaseData fetches and
\* caches the payload of exactly the databases without cached copy or with a
\* cached updated_at earlier than the listed one, and builds the others from
\* their cached payload without a fetch; so does the destination's, on the
\* cache folder as the source's constructor left it.
C17_RefetchIffMissingOrOlder ==
    [][(nmatchers' = nmatchers + 1)
          => /\ build'.src.fetched = Outdated(db_files, "src")
             /\ \A k \in DOMAIN source' :
                    IF k \in Outdated(db_files, "src")
                    THEN /\ db_files'.src[k] = DbFile(db_live.src[k], shape.s[k])
                         /\ source'[k] = MkDatabase("src", k, shape.s[k])
                    ELSE /\ db_files'.src[k] = db_files.src[k]
                         /\ source'[k] = MkDatabase("src", k, db_files.src[k].payload)
             /\ IF shape.same
                THEN /\ build'.dst.fetched = {}
                     /\ \A k \in DOMAIN destination' :
                            destination'[k] = MkDatabase("src", k, db_files'.src[k].payload)
                ELSE /\ build'.dst.fetched = Outdated(db_files, "dst")
                     /\ \A k \in DOMAIN destination' :
                            IF k \in Outdated(db_files, "dst")
                            THEN /\ db_files'.dst[k] = DbFile(db_live.dst[k], shape.d[k])
                                 /\ destination'[k] = MkDatabase("dst", k, shape.d[k])
                            ELSE /\ db_files'.dst[k] = db_files.dst[k]
                                 /\ destination'[k]
                                      = MkDatabase("dst", k, db_files.dst[k].payload)]_vars

\* A second FieldMatcher was built after one of the two source databases
\* changed: that one was fetched, the other came from its cached copy.
C17_Witness ==
    /\ nmatchers = 2
    /\ naccess = 0
    /\ Len(source) = 2
    /\ Cardinality(build.src.fetched) = 1
    /\ build.src.raised = 0
    /\ build.dst.fetched = {}
    /\ \E k \in 1..2 : db_files.src[k].updated_at = 2

FieldsOf(db) ==
    UNION {{[table |-> db.tables[t].id, field |-> db.tables[t].fields[p]] :
               p \in DOMAIN db.tables[t].fields} : t \in DOMAIN db.tables}

\* C18: every entry s -> d under [S.id][D.id] of a map under recomputation
\* or recomputed joins a field of S and a field of D of equal names, S and D
\* being databases of the two snapshots with equal engines; and the entries
\* of the pair processed last join fields of two tables that match_databases
\* matched.
C18_EntriesJoinEqualNames ==
    branch = "compute" =>
        \A m \in {match_dict, fields_match.val, returned.val} :
            \A S \in DOMAIN m : \A D \in DOMAIN m[S] : \A s \in DOMAIN m[S][D] :
                \E a \in DOMAIN source, b \in DOMAIN destination :
                    /\ source[a].id = S
                    /\ destination[b].id = D
                    /\ source[a].engine = destination[b].engine
                    /\ \E x \in FieldsOf(source[a]), y \in FieldsOf(destination[b]) :
                           /\ x.field.id = s
                           /\ y.field.id = m[S][D][s]
                           /\ x.field.name = y.field.name
                           /\ (m = match_dict /\ ~last.skipped
                                 /\ a = last.s /\ b = last.d)
                                  => <<x.table, y.table>> \in last.pairs

\* a pair of databases was processed and gave an entry for a source field
\* that is not the first of its table
C18_Witness ==
    /\ mpc = "loop"
    /\ branch = "compute"
    /\ ~last.skipped
    /\ \E s \in DOMAIN match_dict[source[last.s].id][destination[last.d].id] :
           /\ s = 112
           /\ match_dict[source[last.s].id][destination[last.d].id][s] = 1111

(***************************************************************************)
(* Properties of populate_cards and connect_filters                        *)
(***************************************************************************)
\* the placements the destination holds for query k
PlacedFor(k) ==
    {i \in 1..Len(p_dest) :
        /\ p_dest[i].card_id = p_futures[k].card_id
        /\ p_dest[i].card.name = p_queries[k].name
        /\ p_dest[i].sizeX = p_queries[k].sizeX
        /\ p_dest[i].sizeY = p_queries[k].sizeY
        /\ p_dest[i].col = p_queries[k].col
        /\ p_dest[i].row = p_queries[k].row}

LoggedFor(k) == {i \in 1..Len(p_log) : p_log[i] = k}

PopulateReturned == p_pc \in {"populated", "linked"}

\* C19: populate_cards submits every query exactly once (never twice, and
\* all of them before it collects); it never leaves by an exception; when it
\* has returned, every query's creation has run to its end, each one that
\* failed is logged once, and each one whose own POSTs answered stands on
\* the created dashboard, whatever happened to the others.
C19_EveryCardSubmittedFailuresIsolated ==
    /\ p_pc # "raised"
    /\ \A k \in 1..Len(p_queries) :
           /\ p_submits[k] = (IF k <= p_i THEN 1 ELSE 0)
           /\ p_futures[k].collected => p_i = Len(p_queries)
    /\ PopulateReturned =>
           \A k \in 1..Len(p_queries) :
               /\ p_submits[k] = 1
               /\ p_futures[k].state \in {"done", "failed"}
               /\ p_futures[k].state = "failed" => Cardinality(LoggedFor(k)) = 1
               /\ p_futures[k].state = "done" =>
                      LoggedFor(k) = {} /\ PlacedFor(k) # {}

\* connect_filters has run after a populate_cards in which the creation of
\* one card failed and the creation of another one, submitted later, succeeded
C19_Witness ==
    /\ p_pc = "linked"
    /\ \E k, j \in 1..Len(p_queries) :
           /\ k < j
           /\ p_futures[k].state = "failed"
           /\ p_futures[j].state = "done"
           /\ PlacedFor(j) # {}

\* the source placements connect_filters pairs with destination placement d
SourcesOf(d) ==
    {j \in 1..Len(p_source) :
        /\ p_source[j].card.name = d.card.name
        /\ p_source[j].sizeX = d.sizeX
        /\ p_source[j].sizeY = d.sizeY
        /\ p_source[j].col = d.col
        /\ p_source[j].row = d.row}

\* the parameter mappings of source placement s, with d's card id
Relinked(s, d) ==
    [e \in 1..Len(s.parameter_mappings) |->
        [s.parameter_mappings[e] EXCEPT !.card_id = d.card_id]]

EntriesOf(d) == {j \in 1..Len(p_payload) : p_payload[j].id = d.id}

\* C20: the payload connect_filters sends has an entry with the id of a
\* destination placement d iff d's card has a name and some source placement
\* has that name and d's sizeX, sizeY, col and row; every entry of the
\* payload carries the id of such a d and the parameter mappings of such a
\* source placement, with d's card id in every card_id.
C20_RelinkPayload ==
    p_pc = "linked" =>
        /\ \A i \in 1..Len(p_dest) :
               EntriesOf(p_dest[i]) # {} <=>
                   (p_dest[i].card.name # NoName /\ SourcesOf(p_dest[i]) # {})
        /\ \A j \in 1..Len(p_payload) :
               \E i \in 1..Len(p_dest) :
                   /\ p_payload[j].id = p_dest[i].id
                   /\ p_dest[i].card.name # NoName
                   /\ \E s \in SourcesOf(p_dest[i]) :
                          p_payload[j].parameter_mappings =
                              Relinked(p_source[s], p_dest[i])

\* a payload with a re-linked mapping, sent for a dashboard that also holds a
\* text card and a named card whose source placement has moved
C20_Witness ==
    /\ p_pc = "linked"
    /\ \E j \in 1..Len(p_payload) : Len(p_payload[j].parameter_mappings) > 0
    /\ \E i \in 1..Len(p_dest) : p_dest[i].card.name = NoName
    /\ \E i \in 1..Len(p_dest) :
           p_dest[i].card.name # NoName /\ EntriesOf(p_dest[i]) = {}

(***************************************************************************)
(* Properties of create_and_link_dashboard                                 *)
(***************************************************************************)
\* the place of a call of create_and_link_dashboard in its sequence of steps
StepRank(pc) ==
    CASE pc = "submitted" -> 0
      [] pc = "info" -> 1
      [] pc = "checked" -> 2
      [] pc = "remap" -> 3
      [] pc = "remapped" -> 4
      [] pc = "created" -> 5
      [] pc = "done" -> 6
      [] OTHER -> 7

\* the positions in dest_writes of the requests of task t to a path
WritesOf(t, method, path) ==
    {i \in 1..Len(dest_writes) :
        /\ dest_writes[i].task = t
        /\ dest_writes[i].method = method
        /\ dest_writes[i].path = path}

CardWrites(t) ==
    WritesOf(t, "POST", "/api/card") \cup WritesOf(t, "POST", "/api/dashboard/{id}/cards")

\* the requests task t has sent stand in the order of the steps
WritesInOrder(t) ==
    /\ StepRank(tasks[t].pc) < 5 => \A i \in 1..Len(dest_writes) : dest_writes[i].task # t
    /\ Cardinality(WritesOf(t, "POST", "/api/dashboard/")) <= 1
    /\ Cardinality(WritesOf(t, "PUT", "/api/dashboard/{id}/cards")) <= 1
    /\ \A c \in CardWrites(t) :
           /\ \E d \in WritesOf(t, "POST", "/api/dashboard/") : d < c
           /\ \A p \in WritesOf(t, "PUT", "/api/dashboard/{id}/cards") : c < p
    /\ WritesOf(t, "PUT", "/api/dashboard/{id}/cards") # {} =>
           /\ tasks[t].pc = "done"
           /\ Cardinality(WritesOf(t, "POST", "/api/dashboard/{id}/cards")) =
                  Len(tasks[t].queries)

\* C21: every call of create_and_link_dashboard goes through get_info,
\* check_tables, remap_queries, the creation of the dashboard, the creation
\* of the cards and the re-link in this order, one step at a time, or ends
\* early; no card request is sent before the POST of the dashboard, and the
\* re-link PUT comes after the request of every card.
C21_StepsInOrder ==
    [][\A t \in 1..Len(tasks') :
           /\ WritesInOrder(t)'
           /\ (t <= Len(tasks) /\ tasks'[t].pc # tasks[t].pc) =>
                  \/ StepRank(tasks'[t].pc) = StepRank(tasks[t].pc) + 1
                  \/ tasks'[t].pc \in {"warned", "failed"} /\ StepRank(tasks[t].pc) < 5]_vars

\* a clone of a dashboard of two cards has sent its re-link PUT
C21_Witness ==
    \E t \in 1..Len(tasks) :
        /\ tasks[t].pc = "done"
        /\ Len(tasks[t].queries) >= 2
        /\ WritesOf(t, "PUT", "/api/dashboard/{id}/cards") # {}
        /\ WritesOf(t, "POST", "/api/card") # {}

(***************************************************************************)
(* Properties of the lookup helpers                                        *)
(***************************************************************************)
\* the elements whose name the pattern of the call is found in
Matching == {i \in 1..Len(pure_call.elements) :
                Occurs(pure_call.pattern, pure_call.elements[i].name)}

\* C22: search_table and search_field return the first element, in list
\* order, whose name the pattern is found in, and raise KeyError exactly when
\* there is none.
C22_FirstMatchOrKeyError ==
    pure_result # NoPureResult =>
        IF Matching = {} THEN pure_result = Raised("KeyError")
        ELSE pure_result = Found(CHOOSE i \in Matching : \A j \in Matching : i <= j)

(***************************************************************************)
(* Properties of two FieldMatchers on one field_match.json                 *)
(***************************************************************************)
Loaded(m) == z_pc[m] = "returned" /\ z_seen[m].some

Recomputed(m) == z_pc[m] = "returned" /\ ~z_seen[m].some

\* every database pair of map a is in map b, with the same entry
SubMap(a, b) ==
    \A s \in DOMAIN a : \A d \in DOMAIN a[s] :
        s \in DOMAIN b /\ d \in DOMAIN b[s] /\ a[s][d] = b[s][d]

\* C23: a matcher that finds field_match.json returns what the file holds
\* at that moment, whatever the matcher writing it has still to add: its map
\* is the one last dumped, a part of the map the writing matcher returns at
\* its end.  (That some runs load a map with fewer database pairs is the
\* state C23_Witness.)
C23_LoadsWhatTheFileHolds ==
    \A m \in Matchers :
        Loaded(m) =>
            /\ z_dict[m] = z_seen[m].val
            /\ Recomputed(Other(m)) => SubMap(z_dict[m], z_dict[Other(m)])

\* one matcher has loaded a map that lacks a database pair of the map the
\* other matcher, which was writing the file pair by pair, has returned
C23_Witness ==
    \E m \in Matchers :
        /\ Loaded(m)
        /\ Recomputed(Other(m))
        /\ Truthy(z_dict[m])
        /\ ~SubMap(z_dict[Other(m)], z_dict[m])

(***************************************************************************)
(* Properties of match_databases and Table.__hash__                        *)
(***************************************************************************)
\* the match rule on two tables as listed: equal names, or equal structural
\* hashes, that is the same field names up to their order
SatisfiesRule(s, d) ==
    \/ s.name = d.name
    \/ Permutation(Names(s.fields), Names(d.fields))

\* the destination tables the last loop body handed to match_tables with
\* the a-th table of the source database
PartnersOf(a) ==
    {b \in DOMAIN DstSchema[last.d].tables :
        <<SrcSchema[last.s].tables[a].id, DstSchema[last.d].tables[b].id>> \in last.pairs}

\* C24: in match_databases every source table is handed to match_tables
\* with at most one destination table, and that table is the first one in
\* list order with the source table's name or with its structural hash.
C24_FirstDestinationTableWins ==
    (mpc = "loop" /\ ~last.skipped) =>
        \A a \in DOMAIN SrcSchema[last.s].tables :
            /\ Cardinality(PartnersOf(a)) <= 1
            /\ \A b \in PartnersOf(a) :
                   /\ SatisfiesRule(SrcSchema[last.s].tables[a], DstSchema[last.d].tables[b])
                   /\ \A b2 \in 1..(b - 1) :
                          ~SatisfiesRule(SrcSchema[last.s].tables[a],
                                         DstSchema[last.d].tables[b2])

\* C25: every table pair match_databases hands to match_tables has equal
\* names or the same set of field names, however often the two tables were
\* hashed before.
C25_NoMatchAcrossFieldSets ==
    (mpc = "loop" /\ ~last.skipped) =>
        \A pr \in last.pairs :
            LET s == TableById(SrcSchema[last.s], pr[1])
                d == TableById(DstSchema[last.d], pr[2])
            IN  s.name = d.name \/ NameSet(s) = NameSet(d)

\* a pair of tables of different names matched by hash, in a database pair
\* in which a table of other fields had been hashed twice
C25_Witness ==
    /\ mpc = "loop" /\ ~last.skipped
    /\ \E pr \in last.pairs :
           TableById(SrcSchema[last.s], pr[1]).name # TableById(DstSchema[last.d], pr[2]).name
    /\ \E a \in DOMAIN source[last.s].tables, b \in DOMAIN destination[last.d].tables :
           /\ Len(destination[last.d].tables[b].hashfunction) >= 2
           /\ NameSet(source[last.s].tables[a]) # NameSet(destination[last.d].tables[b])
           /\ source[last.s].tables[a].name # destination[last.d].tables[b].name

\* C26: the entry a recomputation makes for a database pair is the one
\* match_databases gives for the two databases as the schemas list them,
\* whichever database pairs the run has processed before.
C26_EntryIndependentOfEarlierPairs ==
    (mpc = "loop" /\ ~last.skipped) =>
        match_dict[source[last.s].id][destination[last.d].id]
            = match_databases(SrcSchema[last.s], DstSchema[last.d]).matching


\* the dimensions of query j that the map has an entry for
ResolvedIn(j) == {k \in 1..Len(TagsIn(j)) : EntryFor(j, k)}

\* the dimensions of query j
DimensionsIn(j) == {k \in 1..Len(TagsIn(j)) : TagsIn(j)[k].has_dim}

\* C27: once remap_queries has returned, every query that carries a
\* dataset_query has the resolved destination database id as its database id,
\* whether all, some or none of its dimensions had an entry in the map; a
\* query without dataset_query is returned as it was passed in.
C27_DatabaseRewrittenForEveryQuery ==
    rpc = "returned" =>
        \A j \in 1..Len(queries) :
            IF rq_in.queries[j].has_dq
            THEN queries[j].database = destination_database_id
            ELSE queries[j] = rq_in.queries[j]

\* remap_queries has returned a query none of whose dimensions was resolved
\* with its database id changed, next to a query without dataset_query
C27_Witness ==
    /\ rpc = "returned"
    /\ \E j \in 1..Len(queries) :
           /\ rq_in.queries[j].has_dq
           /\ DimensionsIn(j) # {}
           /\ ResolvedIn(j) = {}
           /\ queries[j].database # rq_in.queries[j].database
    /\ \E j \in 1..Len(queries) : ~rq_in.queries[j].has_dq

\* str(id) of a database id
IdText(id) == IF id = 1 THEN "1" ELSE IF id = 2 THEN "2" ELSE "other"

\* the databases of the destination that the call designates: by the name or
\* id given as database_name, else by the name of the destination instance
Designated(c) ==
    LET data == DestinationSnapshot(shape)
        inst == get_instance_name(DestinationDomain(shape)).val
    IN  IF c.database_name # ""
        THEN {k \in 1..Len(data) :
                \/ Lower(data[k].name) = Lower(c.database_name)
                \/ IdText(data[k].id) = c.database_name}
        ELSE {k \in 1..Len(data) : Lower(data[k].name) = Lower(inst)}

\* C28: remap_queries takes as destination database the one that the explicit
\* name or id designates when one is given, else the one named like the
\* destination instance; when there is no such database it raises
\* ElementNotFound.
C28_DesignatedDatabaseOrNotFound ==
    rpc \in {"matcher", "loop", "returned", "raised"} =>
        IF Designated(rq_in) = {}
        THEN rpc = "raised" /\ rerr = "ElementNotFound"
        ELSE /\ rerr # "ElementNotFound"
             /\ destination_database_id
                  \in {DestinationSnapshot(shape)[k].id : k \in Designated(rq_in)}

\* the same with the database designated by name only
C28_DesignatedByName ==
    rpc \in {"matcher", "loop", "returned", "raised"} =>
        LET data  == DestinationSnapshot(shape)
            name  == IF rq_in.database_name # "" THEN rq_in.database_name
                     ELSE get_instance_name(DestinationDomain(shape)).val
            named == {k \in 1..Len(data) : Lower(data[k].name) = Lower(name)}
        IN  IF named = {}
            THEN rpc = "raised" /\ rerr = "ElementNotFound"
            ELSE /\ rerr # "ElementNotFound"
                 /\ destination_database_id \in {data[k].id : k \in named}

\* a clone whose remap_queries raised ElementNotFound sent no request
C28_NoWriteAfterNotFound ==
    \A t \in 1..Len(tasks) :
        (tasks[t].pc = "failed" /\ tasks[t].err = "ElementNotFound") =>
            \A w \in 1..Len(dest_writes) : dest_writes[w].task # t

\* the table a SQL text selects from: the words and underscores after FROM
FromName(sql) ==
    LET i == CHOOSE x \in 1..Len(sql) : sql[x] = W("FROM")
    IN  SubSeq(sql, i + 2, WordEnd(sql, i + 2))

\* the destination has a table of that name, lower-cased
TableExists(name, tables) ==
    \E t \in tables : unify_str(t.name) = unify_str(name)

\* the named queries of the call whose table the destination does not have
AbsentIn(c) ==
    {k \in 1..Len(c.queries) :
        /\ c.queries[k].name # ""
        /\ ~TableExists(FromName(c.queries[k].sql), c.tables)}

\* C29: check_tables returns True exactly when the table each named query
\* selects FROM (runs of spaces made one underscore, lower-cased) exists in
\* the destination; else it returns False, with one warning logged for each
\* absent table.
C29_TrueIffEveryTableExists ==
    (pure_call.fn = "check_tables" /\ pure_result # NoPureResult) =>
        /\ pure_result.exc = ""
        /\ pure_result.valid <=> AbsentIn(pure_call) = {}
        /\ \A k \in AbsentIn(pure_call) :
               \E w \in 1..Len(pure_result.warn) :
                   pure_result.warn[w] = CheckWarning(FromName(pure_call.queries[k].sql))
        /\ Len(pure_result.warn) <= Cardinality(AbsentIn(pure_call))

\* the same for the calls that return, over SQL texts that go on after the
\* table name
C29_VerdictOfReturnedCalls ==
    (pure_call.fn = "check_tables" /\ pure_result # NoPureResult
       /\ pure_result.exc = "") =>
        pure_result.valid <=> AbsentIn(pure_call) = {}

\* the age, when the call began, of the entry the file had for its dashboard
EntryAge(c) == c.at - c.filters_before.fetched[c.dashboard]

\* C30: a parameter set that check_filter_params_exists returns from
\* filter_params.json for a dashboard was fetched for that dashboard at most
\* 24 hours before the call, whatever calls for it and for other dashboards
\* came before.
C30_CachedFiltersFetchedWithinADay ==
    (call.fn = "check_filter_params_exists" /\ call.branch = "hit") =>
        EntryAge(call) <= DAY

\* a step of an access of `matches` that is not the first of its FieldMatcher
LaterAccessStep ==
    /\ mpc = "idle"
    /\ naccess >= 1
    /\ nmatchers' = nmatchers
    /\ naccess' # naccess \/ mpc' # mpc

\* C31: after the first access of `matches` of a FieldMatcher, every later
\* access returns the map of the first one, whatever it holds: match() is
\* not entered again, field_match.json is neither read nor written.
C31_BuiltOnce ==
    [][LaterAccessStep =>
          /\ mpc' = "idle"
          /\ naccess' = naccess + 1
          /\ returned' = returned
          /\ fields_match' = fields_match
          /\ match_dict' = match_dict
          /\ file' = file]_vars

\* the table lists and field lists of a snapshot, without the sha256 objects
Schema(dbs) ==
    [k \in 1..Len(dbs) |->
        [t \in 1..Len(dbs[k].tables) |->
            [name |-> dbs[k].tables[t].name, fields |-> dbs[k].tables[t].fields]]]

\* C32: match() leaves the table list of every database and the field list of
\* every table of both snapshots as they were built, in content and in order.
C32_SnapshotsUnchanged ==
    /\ Schema(source) = Schema(Snapshot("src", shape.s))
    /\ Schema(destination) = Schema(DestinationSnapshot(shape))

\* C37: hash() of a table depends on its field names only: called twice in a
\* row on a table whose fields nobody changed, it returns the same value, at
\* whatever point of a run.
C37_HashRepeatable ==
    \A a \in DOMAIN source : \A t \in DOMAIN source[a].tables :
        LET first == HashTable(source[a].tables[t])
            again == HashTable(first.t)
        IN  /\ Names(again.t.fields) = Names(first.t.fields)
            /\ again.h = first.h

\* the pairs of databases match() makes an entry for
EligiblePairs ==
    {p \in (DOMAIN source) \X (DOMAIN destination) :
        /\ source[p[1]].engine = destination[p[2]].engine
        /\ ~(same_instance /\ source[p[1]].id = destination[p[2]].id)}

\* C36: a map returned by match(), computed or loaded from field_match.json,
\* has an entry for every pair of a source and a destination database of
\* equal engines (and different ids on one instance), also when an earlier
\* run was stopped after it had persisted some of the pairs.
C36_ReturnedMapHasEveryPair ==
    (mpc = "idle" /\ returned.some) =>
        \A p \in EligiblePairs :
            HasPair(returned.val, source[p[1]].id, destination[p[2]].id)

\* main runs clone_multiple_dashboards or clone_collection_on_collection
PoolPath == args.copy_collection # 0 \/ args.source_list # << >>

\* the source dashboards of the call, in the order they are submitted
PoolDashboards ==
    IF args.copy_collection # 0
    THEN {d \in DOMAIN src_dashboards :
            src_dashboards[d].collection_id = args.copy_collection}
    ELSE {args.source_list[k] : k \in 1..Len(args.source_list)}

\* one task per source dashboard
OneTaskEach ==
    /\ {tasks[t].source_dashboard : t \in 1..Len(tasks)} = PoolDashboards
    /\ Len(tasks) = Cardinality(PoolDashboards)

\* the pool was left: every task has ended, the exception of each task that
\* raised is in the log
PoolLeft ==
    \A t \in 1..Len(tasks) :
        /\ Ended(tasks[t])
        /\ tasks[t].pc = "failed" =>
               \E w \in 1..Len(clog) : clog[w] = Logged(t, "error", tasks[t].err)

\* C33: on the list and the collection path one clone task is submitted per
\* source dashboard; the step in which one task raises changes no other
\* task, and a task that has ended stays as it ended; the function returns
\* only when every task has ended, with the exception of every failed task
\* logged.
C33_PoolIsolatesFailures ==
    [][PoolPath =>
          /\ mainpc' \in {"pool", "done"} => OneTaskEach'
          /\ mainpc' = "done" => PoolLeft'
          /\ \A t \in 1..Len(tasks) :
                 /\ (tasks[t].pc # "failed" /\ tasks'[t].pc = "failed") =>
                        \A u \in 1..Len(tasks) : u # t => tasks'[u] = tasks[u]
                 /\ Ended(tasks[t]) => tasks'[t] = tasks[t]]_vars

\* a clone of two dashboards has returned: the first task raised, the second
\* went on after that and sent its re-link PUT
C33_Witness ==
    /\ PoolPath
    /\ mainpc = "done"
    /\ Len(tasks) = 2
    /\ tasks[1].pc = "failed"
    /\ tasks[2].pc = "done"
    /\ WritesOf(2, "PUT", "/api/dashboard/{id}/cards") # {}
    /\ \E w \in 1..Len(clog) : clog[w] = Logged(1, "error", tasks[1].err)

\* -pm, -oid or -ent was given
TenantGiven == args.pm_domain # "" \/ args.owner_id # "" \/ args.enterprise # ""

\* C34: in each tenant mode (-pm, -oid, -ent) a single-dashboard clone whose
\* tables check_tables found in the destination goes on: no later step ends
\* it with an exception or a warning, it calls remap_queries, creates the
\* dashboard and its cards and reaches done.
C34_ValidatedCloneGoesOn ==
    [][\A t \in 1..Len(tasks) :
           (/\ mainpc = "single"
            /\ TenantGiven
            /\ task_args.database_name = ""
            /\ StepRank(tasks[t].pc) >= StepRank("checked")
            /\ tasks'[t].pc # tasks[t].pc)
               => tasks'[t].pc \notin {"failed", "warned"}]_vars

\* a named card whose query has no native SQL body: no `native` section, or
\* no template-tags in it
NoSqlBody(q) == q.name # "" /\ ~(q.has_dq /\ q.has_native /\ q.has_tags)

\* C35: a named card whose query has no native SQL body does not abort the
\* clone of its dashboard: neither check_tables nor remap_queries ends the
\* clone with a KeyError for the section the card lacks.
C35_CardWithoutSqlDoesNotAbort ==
    \A t \in 1..Len(tasks) :
        (\E k \in 1..Len(tasks[t].queries) : NoSqlBody(tasks[t].queries[k]))
            => ~(/\ tasks[t].pc = "failed"
                 /\ tasks[t].err \in {"KeyError: native", "KeyError: template-tags"})

\* the ordered_cards get_info read: the source dashboard as it was before its
\* owner moved a card
SourceRead ==
    CHOOSE cards \in SourceCards : p_source \in {cards, Moved(cards)}

\* the placement the step has attached for query k
Attached(k, cards, cards_after) ==
    /\ Len(cards_after) = Len(cards) + 1
    /\ LET new == cards_after[Len(cards_after)]
           origin_card == SourceRead[k]
       IN  /\ new.col = origin_card.col
           /\ new.row = origin_card.row
           /\ new.sizeX = origin_card.sizeX
           /\ new.sizeY = origin_card.sizeY
           /\ new.card.name = origin_card.card.name
           /\ new.card.name # NoName => new.parameter_mappings = << >>

\* C38: the placement populate_single_card attaches for a query, with name
\* or without, has the col, row, sizeX and sizeY of the source placement
\* get_info read the query from; the placements of cards with name carry an
\* empty parameter_mappings list as long as connect_filters has not run;
\* nothing else changes the placements of the created dashboard.
C38_AttachedAsPlacedInSource ==
    /\ [](p_pc \in {"populating", "populated"} =>
             \A i \in 1..Len(p_dest) :
                 p_dest[i].card.name # NoName => p_dest[i].parameter_mappings = << >>)
    /\ [][/\ \A k \in 1..Len(p_queries) :
                 (p_futures[k].state # "done" /\ p_futures'[k].state = "done")
                     => Attached(k, p_dest, p_dest')
          /\ (\A k \in 1..Len(p_queries) :
                 p_futures[k].state = "done" <=> p_futures'[k].state = "done")
                     => p_dest' = p_dest]_vars

\* populate_cards returned with a card with name and a text card attached,
\* in another order than the source's
C38_Witness ==
    /\ p_pc = "populated"
    /\ \E i, j \in 1..Len(p_dest) :
           /\ i < j
           /\ p_dest[i].card.name = NoName
           /\ p_dest[j].card.name # NoName
           /\ p_dest[j].sizeX # p_dest[j].sizeY
           /\ p_dest[j].parameter_mappings = << >>

====
